---- MODULE Spec2Model ----
(***************************************************************************)
(* Model of the LINE webhook handler of netlify/functions/line-webhook.ts  *)
(* (the insert-once dedup version, lines 12-175) against the tables of the *)
(* schema: processed_events, user_states, settings.                        *)
(*                                                                         *)
(* Strings are sequences of one-character strings.  Time is counted in     *)
(* minutes; the handler's arithmetic is done in milliseconds as in the     *)
(* source.  Every await of the handler is one step of an invocation, so    *)
(* two invocations interleave at exactly the points where the code can be  *)
(* suspended.  A call to an external service is modelled with every result *)
(* the handler's control flow can observe: an error value it tests, an     *)
(* exception it catches, or an exception that propagates out of it.  The   *)
(* writes of user_states at lines 69-74 and 92 are awaited and what they   *)
(* return is dropped: each of them either reaches the table or is rejected *)
(* by the store, and the handler goes on in the same way after both.       *)
(*                                                                         *)
(* Spec is the handler with two overlapping invocations.  SpecMatcher is   *)
(* the handler up to the keyword test of lines 53-64, run for every short  *)
(* configured string and message.  SpecBackend is the backend call of      *)
(* lines 98-175 alone, and the callGPT of the earlier handler that falls   *)
(* back from the responses call to the chat-completion call, await by      *)
(* await, for every document fetch and backend answer.  SpecEarlier is the *)
(* earlier handler (part_003 and part_002), which deduplicates by a lookup *)
(* in chat_logs and hands a window of the user's turns to the backend,     *)
(* with a request and its redelivery overlapping.  SpecLogged is the       *)
(* handler kept in line-webhook.ts 189-313, which logs every message and   *)
(* has no dedup; SpecLastEvent is the handler of part_002 353-458, which   *)
(* deduplicates on user_states.last_event_id.                              *)
(***************************************************************************)
EXTENDS Integers, Sequences, FiniteSets, TLC

\* ------------------------------------------------------------------ bounds
MaxNow == 10
TickMinutes == 10
MaxConfigLen == 3
MaxTextLen == 3

\* -------------------------------------------------------- program constants
DefaultTimeoutMinutes == 30
MsPerMinute == 60 * 1000

NULL == "<null>"
NullTime == -1
Unset == <<"<unset>">>
FWComma == "<fw,>"
Placeholder == "<anonymous>"
AckText == <<"<ack>">>
AiErrorPrefix == "<ai-error>"

\* ------------------------------------------------------------ string model
IsSpace(c) == c = " "

RECURSIVE TrimLeft(_)
TrimLeft(s) ==
  IF s = <<>> THEN <<>>
  ELSE IF IsSpace(Head(s)) THEN TrimLeft(Tail(s)) ELSE s

RECURSIVE TrimRight(_)
TrimRight(s) ==
  IF s = <<>> THEN <<>>
  ELSE IF IsSpace(s[Len(s)]) THEN TrimRight(SubSeq(s, 1, Len(s) - 1)) ELSE s

Trim(s) == TrimRight(TrimLeft(s))

\* String.prototype.replace(/，/g, ',')
ReplaceFullWidthCommas(s) == [i \in 1..Len(s) |-> IF s[i] = FWComma THEN "," ELSE s[i]]

\* String.prototype.split(','): one more piece than there are commas
RECURSIVE SplitFrom(_, _)
SplitFrom(s, piece) ==
  IF s = <<>> THEN <<piece>>
  ELSE IF Head(s) = "," THEN <<piece>> \o SplitFrom(Tail(s), <<>>)
  ELSE SplitFrom(Tail(s), Append(piece, Head(s)))

Split(s) == SplitFrom(s, <<>>)

\* the filter left out
FilterKeepsAll(ps) == ps

RECURSIVE FilterNonEmpty(_)
FilterNonEmpty(ps) ==
  IF ps = <<>> THEN <<>>
  ELSE IF Len(Head(ps)) > 0 THEN <<Head(ps)>> \o FilterNonEmpty(Tail(ps))
  ELSE FilterNonEmpty(Tail(ps))

\* String.prototype.includes
Includes(s, k) ==
  \E i \in 0..(Len(s) - Len(k)) : SubSeq(s, i + 1, i + Len(k)) = k

StartsWith(s, k) == Len(s) >= Len(k) /\ SubSeq(s, 1, Len(k)) = k

\* ------------------------------------------------------- keyword matching
\* settings.handover_keywords?.replace(/，/g, ',').split(',').map(trim).filter(len > 0) || []
HandoverKeywords(cfg) ==
  IF cfg = Unset THEN <<>>
  ELSE LET pieces == Split(ReplaceFullWidthCommas(cfg))
       IN  FilterNonEmpty([i \in 1..Len(pieces) |-> Trim(pieces[i])])

\* every keyword matched as a substring, whatever its length
KeywordMatchesSubstring(k, userMessage) == Includes(userMessage, k)

\* the predicate handed to Array.prototype.find
KeywordMatches(k, userMessage) ==
  IF Len(k) = 1 THEN userMessage = k ELSE Includes(userMessage, k)

\* a search that keeps the last keyword that matches
MatchedKeywordLast(keywords, userMessage) ==
  LET hits == {i \in 1..Len(keywords) : KeywordMatches(keywords[i], userMessage)}
  IN  IF hits = {} THEN Unset
      ELSE keywords[CHOOSE i \in hits : \A j \in hits : j <= i]

\* Array.prototype.find: the first element that satisfies the predicate, or undefined
MatchedKeyword(keywords, userMessage) ==
  LET hits == {i \in 1..Len(keywords) : KeywordMatches(keywords[i], userMessage)}
  IN  IF hits = {} THEN Unset
      ELSE keywords[CHOOSE i \in hits : \A j \in hits : i <= j]

\* settings.agent_user_ids?.split(',').map(trim).filter(Boolean); undefined when unset
AgentIds(cfg) ==
  IF cfg = Unset THEN Unset
  ELSE LET pieces == Split(cfg)
       IN  FilterNonEmpty([i \in 1..Len(pieces) |-> Trim(pieces[i])])

\* --------------------------------------------------------- human-mode timer
\* new Date(userState.last_human_interaction).getTime(); new Date(null) is the epoch
GetTime(ts) == IF ts = NullTime THEN 0 ELSE ts * MsPerMinute

\* (settings.handover_timeout_minutes || 30) * 60 * 1000
\* (a null column is falsy like 0)
TimeoutMs(s) ==
  (IF s.handover_timeout_minutes = 0
     THEN DefaultTimeoutMinutes
     ELSE s.handover_timeout_minutes) * 60 * 1000

\* the comparison turned around
StillHumanModeNever(s, userState, clock) == FALSE

StillHumanModeFlipped(s, userState, clock) ==
  clock * MsPerMinute - GetTime(userState.last_human_interaction) > TimeoutMs(s)

\* new Date().getTime() - lastInteraction < timeoutMs
StillHumanMode(s, userState, clock) ==
  clock * MsPerMinute - GetTime(userState.last_human_interaction) < TimeoutMs(s)

\* ------------------------------------------------------------ LLM backends
Threw(m) == [threw |-> TRUE, message |-> m, text |-> <<>>, id |-> NULL]
Returned(t) == [threw |-> FALSE, message |-> NULL, text |-> t, id |-> NULL]

\* { text, id } as the earlier callGPT returns it
ReturnedWithId(t, id) == [threw |-> FALSE, message |-> NULL, text |-> t, id |-> id]

\* result.error?.message || res.statusText
ErrorMessage(resp, fallback) == IF resp.error # NULL THEN resp.error ELSE fallback

\* x || ''
OrEmpty(t) == IF t = Unset THEN <<>> ELSE t

IsGPT5(s) == Includes(s.gpt_model_name, <<"gpt-5">>)

\* the body of the answer used whatever its status
FileContentAnyStatus(s, doc) ==
  IF s.reference_file_url = NULL \/ doc.transport = "throw" THEN <<>> ELSE doc.text

\* lines 116-119: the text of the reference document, '' when no URL is configured,
\* when the fetch throws and when its status is not a success
FileContent(s, doc) ==
  IF s.reference_file_url = NULL THEN <<>>
  ELSE IF doc.transport = "throw" THEN <<>>
  ELSE IF doc.ok THEN doc.text
  ELSE <<>>

\* lines 153-163: the document as an inline part, null in the same three cases
FilePart(s, doc) ==
  IF s.reference_file_url = NULL THEN Unset
  ELSE IF doc.transport = "throw" THEN Unset
  ELSE IF doc.ok THEN doc.text
  ELSE Unset

\* a request as the backend receives it: the API, the document content and the
\* names of the generation parameters it carries
ApiCall(api, document, params) ==
  [ api |-> api, document |-> document, params |-> params,
    previous_response_id |-> NULL, input |-> <<>>, messages |-> <<>> ]

\* settings.gpt_model_name.startsWith('o1') || settings.gpt_model_name.startsWith('o3')
IsReasoningModel(s) ==
  StartsWith(s.gpt_model_name, <<"o1">>) \/ StartsWith(s.gpt_model_name, <<"o3">>)

\* lines 123-128: the body of the responses request
ResponsesParams == {"reasoning", "text"}

\* lines 141-147: the parameters of the chat-completion request
CompletionParams(s) ==
  IF IsReasoningModel(s) THEN {"max_completion_tokens"} ELSE {"max_tokens", "temperature"}

\* the parameters of the chat-completion request in the continuation variant:
\* temperature for every model, the cap chosen by the model name
CompletionParamsContinuation(s) ==
  {"temperature"} \cup
    (IF IsGPT5(s) \/ IsReasoningModel(s) THEN {"max_completion_tokens"} ELSE {"max_tokens"})

\* line 170: generationConfig
GenerationConfig == {"temperature", "maxOutputTokens"}

\* generationConfig of the earlier callGemini, with thinking_config for a
\* gemini-3 model
GenerationConfigThinking(s) ==
  GenerationConfig \cup
    (IF Includes(s.gemini_model_name, <<"gemini-3">>) THEN {"thinking_config"} ELSE {})

\* what a call of callGPT or callGemini did: the requests it made, then its result
Called(calls, r) ==
  [threw |-> r.threw, message |-> r.message, text |-> r.text, id |-> r.id, calls |-> calls]

\* the result of one request, as both APIs report it
Outcome(resp, fallback) ==
  IF resp.transport = "throw" THEN Threw(resp.message)
  ELSE IF ~resp.ok \/ resp.error # NULL THEN Threw(ErrorMessage(resp, fallback))
  ELSE Returned(OrEmpty(resp.text))

\* lines 114-150; openai.chat.completions.create rejects on a failed request
CallGPT(s, doc, resp) ==
  IF IsGPT5(s)
    THEN Called(<<ApiCall("responses", FileContent(s, doc), ResponsesParams)>>,
                Outcome(resp, resp.statusText))
    ELSE Called(<<ApiCall("chat.completions", FileContent(s, doc), CompletionParams(s))>>,
                Outcome(resp, resp.statusText))

\* lines 152-175
CallGemini(s, doc, resp) ==
  Called(<<ApiCall("generateContent", FilePart(s, doc), GenerationConfig)>>,
         Outcome(resp, "Gemini API Error"))

\* lines 100-101: the backend selected by settings.active_ai
CallBackend(s, doc, resp) ==
  IF s.active_ai = "gpt" THEN CallGPT(s, doc, resp) ELSE CallGemini(s, doc, resp)

\* ---------------------------------------------- the earlier callGPT with history
\* .limit(5) of the history query
HistoryLimit == 5

\* a row of chat_logs as the history query returns it
Turn(sender, message, ai_response_id) ==
  [sender |-> sender, message |-> message, ai_response_id |-> ai_response_id]

\* [...history].reverse().find(h => h.sender === 'ai' && h.ai_response_id): the id
\* of the last turn of the window that is an AI turn with an id, NULL without one
LastAIResponse(history) ==
  LET hits == {n \in 1..Len(history) :
                 history[n].sender = "ai" /\ history[n].ai_response_id # NULL}
  IN  IF hits = {} THEN NULL
      ELSE history[CHOOSE n \in hits : \A m \in hits : m <= n].ai_response_id

\* the body of the responses request; previous_response_id is set only when an
\* AI turn with an id was found
ResponsesRequest(s, history, currentMessage, doc) ==
  [ApiCall("responses", FileContent(s, doc), ResponsesParams) EXCEPT
     !.previous_response_id = LastAIResponse(history), !.input = currentMessage]

\* h.sender === 'user' ? 'user' : 'assistant'
Role(sender) == IF sender = "user" THEN "user" ELSE "assistant"

\* the message list of the chat-completion request: the system message, one
\* message per turn of the history, then the current message
Messages(s, history, currentMessage, doc) ==
  <<[role |-> "system", content |-> FileContent(s, doc)]>>
    \o [n \in 1..Len(history) |->
          [role |-> Role(history[n].sender), content |-> history[n].message]]
    \o <<[role |-> "user", content |-> currentMessage]>>

CompletionRequest(s, history, currentMessage, doc, params) ==
  [ApiCall("chat.completions", FileContent(s, doc), params) EXCEPT
     !.messages = Messages(s, history, currentMessage, doc)]

\* { text: ... || '', id: result.id } on success
OutcomeWithId(resp, fallback) ==
  LET r == Outcome(resp, fallback)
  IN  IF r.threw THEN r ELSE ReturnedWithId(r.text, resp.id)

\* the marker the catch block of the continuation variant looks for
ApiErrorMarker == "GPT-5 API"

\* e.message.includes('GPT-5 API'), the message taken as one word
Rethrown(message) == Includes(<<message>>, <<ApiErrorMarker>>)

\* callGPT of the continuation variant: the responses call inside try/catch, the
\* chat-completion call after it
CallGPTContinuation(s, history, currentMessage, doc, resp, chat) ==
  LET first == ResponsesRequest(s, history, currentMessage, doc)
      second == CompletionRequest(s, history, currentMessage, doc,
                                  CompletionParamsContinuation(s))
      r == OutcomeWithId(resp, resp.statusText)
  IN  IF IsGPT5(s) /\ ~r.threw THEN Called(<<first>>, r)
      ELSE IF IsGPT5(s) /\ Rethrown(r.message) THEN Called(<<first>>, r)
      ELSE Called((IF IsGPT5(s) THEN <<first>> ELSE <<>>) \o <<second>>,
                  OutcomeWithId(chat, chat.statusText))

\* the prefixes of the messages that the callGPT before it throws
ApiErrorPrefix == "GPT-5 API <error>: "
OpenAIErrorPrefix == "OpenAI API <error>: "

\* that callGPT: an error reported by the responses API is thrown with the prefix
\* the catch block looks for, any other failure of the call falls through to the
\* chat-completion call, whose failures are thrown with a prefix as well.  The
\* messages are sequences of words.
CallGPTPrefixed(s, history, currentMessage, doc, resp, chat) ==
  LET first == ResponsesRequest(s, history, currentMessage, doc)
      second == CompletionRequest(s, history, currentMessage, doc,
                                  {"temperature", "max_tokens"})
      r == OutcomeWithId(resp, resp.statusText)
      thrown == IF resp.transport = "throw" THEN <<r.message>>
                ELSE <<ApiErrorPrefix, r.message>>
      c == OutcomeWithId(chat, chat.statusText)
  IN  IF IsGPT5(s) /\ ~r.threw THEN Called(<<first>>, r)
      ELSE IF IsGPT5(s) /\ Includes(thrown, <<ApiErrorPrefix>>)
        THEN Called(<<first>>, Threw(thrown))
      ELSE Called((IF IsGPT5(s) THEN <<first>> ELSE <<>>) \o <<second>>,
                  IF c.threw THEN Threw(<<OpenAIErrorPrefix, c.message>>) ELSE c)

\* a row of public.chat_logs; the table is kept in created_at order
ChatLog(userId, eventId, message, sender, aiType, responseId) ==
  [ line_user_id |-> userId, webhook_event_id |-> eventId, message |-> message,
    sender |-> sender, ai_type |-> aiType, ai_response_id |-> responseId ]

Reverse(seq) == [n \in 1..Len(seq) |-> seq[Len(seq) - n + 1]]
Take(seq, n) == SubSeq(seq, 1, IF Len(seq) < n THEN Len(seq) ELSE n)

\* .eq('line_user_id', userId)
UserLogs(table, userId) == SelectSeq(table, LAMBDA r : r.line_user_id = userId)

\* .select('message, sender, ai_response_id').eq('line_user_id', userId)
\* .order('created_at', { ascending: false }).limit(5), then contextLogs.reverse()
ContextLogs(table, userId) ==
  LET rows == Reverse(Take(Reverse(UserLogs(table, userId)), HistoryLimit))
  IN  [n \in 1..Len(rows) |->
         Turn(rows[n].sender, rows[n].message, rows[n].ai_response_id)]

\* the same query with .select('message, sender'): the turns carry no id
ContextLogsWithoutIds(table, userId) ==
  LET rows == Reverse(Take(Reverse(UserLogs(table, userId)), HistoryLimit))
  IN  [n \in 1..Len(rows) |-> Turn(rows[n].sender, rows[n].message, NULL)]

\* .select('id').eq('webhook_event_id', eventId).single(): data when exactly one
\* row has the event id
ExistingLog(table, eventId) ==
  Cardinality({n \in 1..Len(table) : table[n].webhook_event_id = eventId}) = 1

\* an insert that a unique key on webhook_event_id turns down
InsertOnce(table, row) ==
  IF \E n \in 1..Len(table) : table[n].webhook_event_id = row.webhook_event_id
    THEN table ELSE Append(table, row)

\* .insert(row): chat_logs has no key on webhook_event_id
Insert(table, row) == Append(table, row)

\* lines 98-104: the try/catch around the backend call
AiResult(r) ==
  IF r.threw THEN <<AiErrorPrefix, r.message>> ELSE r.text

\* ------------------------------------------------------------------ inputs
Invocations == {1, 2}
Users == {"u1", "u2"}
EventIds == {"e1", "e2", "e3", "e4"}

TextEvent(id, user, text) ==
  [type |-> "message", mtype |-> "text", webhookEventId |-> id, userId |-> user, text |-> text]

EvHelp  == TextEvent("e1", "u1", <<" ", "b", "h", "b">>)
EvPlain == TextEvent("e2", "u1", <<"b", "a">>)
EvCall  == TextEvent("e3", "u1", <<"a">>)
EvOther == TextEvent("e4", "u2", <<"h", "b">>)
EvBlank == TextEvent("e4", "u1", <<" ">>)
EvNoId  == TextEvent(NULL, "u1", <<"b", "a">>)
EvImage == [type |-> "message", mtype |-> "image", webhookEventId |-> "e4", userId |-> "u1", text |-> Unset]

\* the bodies a request can carry
Batches ==
  { <<EvHelp, EvPlain>>, <<EvPlain, EvPlain>>, <<EvCall>>, <<EvOther>>,
    <<EvImage, EvBlank, EvNoId>> }

KeywordsAscii == <<"a", ",", "h", "b", ",", "b", "h">>
KeywordsWide  == <<"h", "b", FWComma, ",", " ", "a", " ">>
RosterTwo == <<"g", ",", " ", "k">>
ModelGPT5 == <<"gpt-5", "-mini">>
ModelGemini == <<"gemini-2", "-flash">>
ModelGemini3 == <<"gemini-3", "-pro">>
ModelO1 == <<"o1", "-mini">>
ModelO3 == <<"o3">>
ModelGPT4 == <<"gpt-4.1", "-mini">>

DocUrl == "<url>"
ChannelSecret == "<secret>"
ForgedSecret == "<forged>"

SettingsRow(keywords, timeout, enabled, active, agents, model) ==
  [ handover_keywords |-> keywords, handover_timeout_minutes |-> timeout,
    is_ai_enabled |-> enabled, active_ai |-> active, agent_user_ids |-> agents,
    gpt_model_name |-> model, gemini_model_name |-> ModelGemini,
    line_channel_secret |-> ChannelSecret, reference_file_url |-> DocUrl ]

\* the contents the settings row can have
SettingsRows ==
  { SettingsRow(KeywordsAscii, 10, TRUE, "gpt", RosterTwo, ModelGPT5),
    SettingsRow(KeywordsAscii, 10, FALSE, "gemini", <<>>, ModelO1),
    SettingsRow(KeywordsWide, 0, TRUE, "gemini", Unset, ModelO1),
    SettingsRow(KeywordsWide, 0, FALSE, "gpt", RosterTwo, ModelO1),
    SettingsRow(Unset, 10, TRUE, "gpt", <<>>, ModelO1) }

\* what a backend can answer to one request
Response(transport, ok, error, statusText, message, text, id) ==
  [transport |-> transport, ok |-> ok, error |-> error, statusText |-> statusText,
   message |-> message, text |-> text, id |-> id]

Responses ==
  { Response("ok", TRUE, NULL, "OK", NULL, <<"<answer>">>, "r9"),
    Response("ok", TRUE, NULL, "OK", NULL, <<>>, "r9"),
    Response("ok", TRUE, NULL, "OK", NULL, Unset, "r9"),
    Response("ok", FALSE, NULL, "Bad Request", NULL, Unset, NULL),
    Response("ok", FALSE, "quota exceeded", "Too Many Requests", NULL, Unset, NULL),
    Response("throw", FALSE, NULL, NULL, "socket hang up", Unset, NULL) }

\* what the fetch of the reference document can give
DocFetch(transport, ok, text) == [transport |-> transport, ok |-> ok, text |-> text]

DocFetches ==
  { DocFetch("ok", TRUE, <<"<doc>">>),
    DocFetch("ok", FALSE, <<"<not found>">>),
    DocFetch("throw", FALSE, <<>>) }

\* what chat_logs can hold when an event arrives: nothing; two turns of u1, two of
\* u2 and two more of u1, the last answer without an id; seven turns of u1 of
\* which only the first answer has an id
EarlierLogs ==
  << ChatLog("u1", "e5", <<"q1">>, "user", NULL, NULL),
     ChatLog("u1", NULL, <<"a1">>, "ai", "gpt", "r1"),
     ChatLog("u2", "e6", <<"q2">>, "user", NULL, NULL),
     ChatLog("u2", NULL, <<"a2">>, "ai", "gpt", "r2"),
     ChatLog("u1", "e7", <<"q3">>, "user", NULL, NULL),
     ChatLog("u1", NULL, <<"a3">>, "ai", "gemini", NULL) >>

LongerLogs ==
  << ChatLog("u1", "e5", <<"q1">>, "user", NULL, NULL),
     ChatLog("u1", NULL, <<"a1">>, "ai", "gpt", "r1"),
     ChatLog("u1", "e6", <<"q2">>, "user", NULL, NULL),
     ChatLog("u1", NULL, <<"a2">>, "ai", "gemini", NULL),
     ChatLog("u1", "e7", <<"q3">>, "user", NULL, NULL),
     ChatLog("u1", "e8", <<"q4">>, "user", NULL, NULL),
     ChatLog("u1", NULL, <<"a4">>, "ai", "gemini", NULL) >>

InitialLogs == {<<>>, EarlierLogs, LongerLogs}

DisplayNames == {"Amy"}

\* the x-line-signature of a body: the HMAC of the raw body under a secret
Hmac(body, secret) == <<secret, body>>

\* a check that lets every signature pass
ValidateSignatureAcceptsAll(body, secret, signature) == TRUE

\* validateSignature(event.body, settings.line_channel_secret, signature)
ValidateSignature(body, secret, signature) == signature = Hmac(body, secret)

Request(method, body, secret) ==
  [method |-> method, body |-> body, signature |-> Hmac(body, secret)]

\* the requests that reach the function: signed by the platform or by someone else
Requests ==
  {Request("GET", <<EvCall>>, ChannelSecret)}
    \cup {Request("POST", b, k) : b \in Batches, k \in {ChannelSecret, ForgedSecret}}

\* the outcomes of the settings query: the row, or an error (no row included)
SettingsFetches == {"row", "error"}

\* ------------------------------------------------------------------- state
VARIABLES
  now,               \* the wall clock, in minutes
  settings,          \* the single row of public.settings
  processed_events,  \* public.processed_events: the set of event_id keys
  user_states,       \* public.user_states: the set of its rows
  chat_logs,         \* public.chat_logs of the earlier handler, in created_at order
  inv,               \* the handler invocations: position and locals
  tally              \* per event id: deliveries admitted, reply calls, backend calls

vars == <<now, settings, processed_events, user_states, chat_logs, inv, tally>>

\* what a select of one user's row returns: the row, or no data
Row(nickname, humanMode, last) ==
  [ exists |-> TRUE, nickname |-> nickname, is_human_mode |-> humanMode,
    last_human_interaction |-> last ]
NoRow ==
  [ exists |-> FALSE, nickname |-> NULL, is_human_mode |-> FALSE,
    last_human_interaction |-> NullTime ]

\* a row written without its last_human_interaction column
TableRowWithoutTimestamp(userId, nickname, humanMode, last) ==
  [ line_user_id |-> userId, nickname |-> nickname, is_human_mode |-> humanMode,
    last_human_interaction |-> NullTime ]

\* a row of public.user_states as the table holds it
TableRow(userId, nickname, humanMode, last) ==
  [ line_user_id |-> userId, nickname |-> nickname, is_human_mode |-> humanMode,
    last_human_interaction |-> last ]

\* .select('*').eq('line_user_id', userId).single(): the data of the one row that
\* matches, no data when there is none or more than one
Single(table, userId) ==
  LET rows == {r \in table : r.line_user_id = userId}
  IN  IF Cardinality(rows) = 1
        THEN LET r == CHOOSE r \in rows : TRUE
             IN  Row(r.nickname, r.is_human_mode, r.last_human_interaction)
        ELSE NoRow

\* an insert that takes no notice of the primary key
UpsertAsInsert(table, row) == table \cup {row}

\* .upsert(row): insert, or on a conflict on the primary key line_user_id replace
\* the columns of the row that is there
Upsert(table, row) ==
  {r \in table : r.line_user_id # row.line_user_id} \cup {row}

\* an update without its .eq filter
UpdateAllRows(table, userId, humanMode) ==
  { [r EXCEPT !.is_human_mode = humanMode] : r \in table }

\* an update that also resets the timestamp column
UpdateClearsTimestamp(table, userId, humanMode) ==
  { IF r.line_user_id = userId
      THEN [r EXCEPT !.is_human_mode = humanMode, !.last_human_interaction = NullTime]
      ELSE r : r \in table }

\* .update({ is_human_mode }).eq('line_user_id', userId)
Update(table, userId, humanMode) ==
  { IF r.line_user_id = userId THEN [r EXCEPT !.is_human_mode = humanMode] ELSE r :
      r \in table }

NoSettings ==
  [ handover_keywords |-> Unset, handover_timeout_minutes |-> 0, is_ai_enabled |-> FALSE,
    active_ai |-> NULL, agent_user_ids |-> Unset, gpt_model_name |-> <<>>,
    gemini_model_name |-> <<>>, line_channel_secret |-> NULL, reference_file_url |-> NULL ]

NoRequest == [method |-> NULL, body |-> <<>>, signature |-> <<>>]

\* what one delivery of an event has done so far
NoEffects ==
  [ gate |-> "none",         \* the dedup gate's verdict: Admitted or Duplicate
    recorded |-> FALSE,      \* the event id was in processed_events when the insert arrived
    gateChanged |-> FALSE,   \* the insert changed processed_events
    stored |-> NoRow,        \* the user's row when the event was handled
    clock |-> NullTime,      \* the time at which it was handled
    outcome |-> "none",
    reads |-> 0, writes |-> 0,
    writeFailed |-> FALSE,   \* the write reported an error
    inserted |-> 0,          \* rows the delivery added to chat_logs
    logs |-> <<>>,           \* chat_logs as the history query found it
    replaced |-> NoRow,      \* the user's row as the write found it
    wrote |-> NoRow,         \* the user's row as the write left it
    profiles |-> 0, profileFailed |-> FALSE,
    replies |-> 0, replyText |-> <<>>, replyFailed |-> FALSE,
    pushes |-> 0, notified |-> <<>>, pushFailures |-> 0,
    notice |-> <<>>,         \* nickname, keyword and text of the agent notification
    llm |-> 0, llmFailed |-> FALSE, failure |-> NULL ]

NoTally == [admitted |-> 0, replies |-> 0, llm |-> 0]

\* the inputs and the result of a backend call looked at on its own
NoCall ==
  [ doc |-> DocFetch("none", FALSE, <<>>),
    resp |-> Response("none", FALSE, NULL, NULL, NULL, Unset, NULL),
    chat |-> Response("none", FALSE, NULL, NULL, NULL, Unset, NULL),
    history |-> <<>>,
    result |-> Called(<<>>, Returned(<<>>)) ]

IdleInvocation ==
  [ pc |-> "idle", status |-> 0, request |-> NoRequest, fetch |-> "none", parsed |-> FALSE,
    settings |-> NoSettings, events |-> <<>>, k |-> 0,
    userState |-> NoRow, nickname |-> NULL, matchedKeyword |-> Unset, stamp |-> NullTime,
    agentIds |-> Unset, a |-> 0, aiResult |-> <<>>, d |-> NoEffects,
    log |-> <<>>,            \* outcome and write of every event the loop is done with
    variant |-> NULL,        \* which of the earlier handlers runs (SpecEarlier only)
    history |-> <<>>,        \* the window of chat_logs handed to the backend call
    call |-> NoCall ]

Init ==
  /\ now = 0
  /\ settings \in SettingsRows
  /\ processed_events = {}
  /\ user_states = {}
  /\ chat_logs = <<>>
  /\ inv = [i \in Invocations |-> IdleInvocation]
  /\ tally = [e \in EventIds |-> NoTally]

LineEvent(i) == inv[i].events[inv[i].k]

\* (lineEvent.message.text || '').trim()
UserMessage(ev) == IF ev.text = Unset THEN <<>> ELSE Trim(ev.text)

Set(i, r) == inv' = [inv EXCEPT ![i] = r]
Bump(e, field) == tally' = [tally EXCEPT ![e][field] = @ + 1]

\* ----------------------------------------------------------------- actions
Tick ==
  /\ now + TickMinutes <= MaxNow
  /\ now' = now + TickMinutes
  /\ UNCHANGED <<settings, processed_events, user_states, inv, tally, chat_logs>>

\* the method test left out
RejectionAnyMethod(request, fetch, row) ==
  IF fetch # "row" THEN 500
  ELSE IF ~ValidateSignature(request.body, row.line_channel_secret, request.signature) THEN 401
  ELSE 0

\* lines 13-26: the status the request is turned away with, 0 when it is let in
Rejection(request, fetch, row) ==
  IF request.method # "POST" THEN 405
  ELSE IF fetch # "row" THEN 500
  ELSE IF ~ValidateSignature(request.body, row.line_channel_secret, request.signature) THEN 401
  ELSE 0

\* lines 13-28: method, settings, signature, then the parsing of the body
Start(i) ==
  /\ inv[i].pc = "idle"
  /\ \A j \in Invocations : j < i => inv[j].pc # "idle"
  /\ \E request \in Requests, fetch \in SettingsFetches :
       LET status == Rejection(request, fetch, settings)
           got == [inv[i] EXCEPT !.request = request,
                                 !.fetch = IF request.method = "POST" THEN fetch ELSE "none"]
       IN  Set(i, IF status # 0
                    THEN [got EXCEPT !.pc = "returned", !.status = status]
                    ELSE [got EXCEPT !.pc = "loop", !.settings = settings, !.parsed = TRUE,
                                     !.events = request.body])
  /\ UNCHANGED <<now, settings, processed_events, user_states, tally, chat_logs>>

\* the test of the trimmed text left out
IsHandledBlankText(ev) ==
  ev.type = "message" /\ ev.mtype = "text" /\ ev.webhookEventId # NULL

\* lines 31-36: a text message with a non-empty trimmed text and an event id
IsHandled(ev) ==
  /\ ev.type = "message" /\ ev.mtype = "text"
  /\ UserMessage(ev) # <<>> /\ ev.webhookEventId # NULL

\* lines 30-36 and 111: the next event of the batch, or the 200 answer
Loop(i) ==
  /\ inv[i].pc = "loop"
  /\ IF inv[i].k = Len(inv[i].events)
       THEN Set(i, [inv[i] EXCEPT !.pc = "returned", !.status = 200])
       ELSE LET ev == inv[i].events[inv[i].k + 1]
                done == IF inv[i].k = 0 THEN inv[i].log
                        ELSE Append(inv[i].log, [outcome |-> inv[i].d.outcome,
                                                 wrote |-> inv[i].d.wrote,
                                                 writeFailed |-> inv[i].d.writeFailed,
                                                 stamp |-> inv[i].stamp])
                fresh == [inv[i] EXCEPT !.k = @ + 1, !.userState = NoRow, !.nickname = NULL,
                                        !.log = done,
                                        !.matchedKeyword = Unset, !.stamp = NullTime,
                                        !.agentIds = Unset, !.a = 0, !.aiResult = <<>>,
                                        !.d = NoEffects]
            IN  IF IsHandled(ev)
                  THEN Set(i, [fresh EXCEPT !.pc = "insert"])
                  ELSE Set(i, [fresh EXCEPT !.d.outcome = "ignored"])
  /\ UNCHANGED <<now, settings, processed_events, user_states, tally, chat_logs>>

\* lines 40-47: the insert into processed_events.  The primary key rejects a second
\* row with the same event_id; the request can also fail for another reason, and
\* supabase-js reports both as `error`.
\* a table without the primary key on event_id
InsertOutcomesNoKey(table, eventId) == {"inserted", "request_failed"}

InsertOutcomes(table, eventId) ==
  IF eventId \in table THEN {"unique_violation"} ELSE {"inserted", "request_failed"}

\* only the uniqueness violation taken for an error
EventErrorOnlyOnConflict(outcome) == outcome = "unique_violation"

\* the error of the insert left untested
EventErrorIgnored(outcome) == FALSE

\* line 44: if (eventError)
EventError(outcome) == outcome # "inserted"

\* the duplicate is logged but the `continue` is missing
AfterGateFallsThrough(eventError) == "select"

\* lines 44-49: `continue` on an error, the state read otherwise
AfterGate(eventError) == IF eventError THEN "loop" ELSE "select"

InsertProcessedEvent(i) ==
  /\ inv[i].pc = "insert"
  /\ LET e == LineEvent(i).webhookEventId
         u == LineEvent(i).userId
     IN  \E outcome \in InsertOutcomes(processed_events, e) :
           LET eventError == EventError(outcome)
               seen == [inv[i] EXCEPT !.pc = AfterGate(eventError),
                                      !.d.recorded = e \in processed_events,
                                      !.d.gateChanged = (outcome = "inserted"),
                                      !.d.stored = Single(user_states, u),
                                      !.d.clock = now]
           IN  /\ processed_events' =
                    IF outcome = "inserted" THEN processed_events \cup {e} ELSE processed_events
               /\ IF eventError
                    THEN /\ Set(i, [seen EXCEPT !.d.gate = "Duplicate",
                                                !.d.outcome = "duplicate-drop"])
                         /\ UNCHANGED tally
                    ELSE /\ Set(i, [seen EXCEPT !.d.gate = "Admitted"])
                         /\ Bump(e, "admitted")
  /\ UNCHANGED <<now, settings, user_states, chat_logs>>

\* userState?.nickname || '匿名用戶'
StoredNickname(userState) ==
  IF userState.exists /\ userState.nickname # NULL /\ userState.nickname # ""
    THEN userState.nickname
    ELSE Placeholder

\* the AI switch left untested
BranchAiFlagIgnored(s, userState, matchedKeyword, clock) ==
  IF matchedKeyword # Unset THEN "handover"
  ELSE IF userState.exists /\ userState.is_human_mode
    THEN IF StillHumanMode(s, userState, clock) THEN "hold" ELSE "revert"
  ELSE "ai"

\* lines 64 and 88-96: which way the handler goes for an admitted message
Branch(s, userState, matchedKeyword, clock) ==
  IF matchedKeyword # Unset THEN "handover"
  ELSE IF userState.exists /\ userState.is_human_mode
    THEN IF StillHumanMode(s, userState, clock) THEN "hold" ELSE "revert"
  ELSE IF ~s.is_ai_enabled THEN "drop"
  ELSE "ai"

\* lines 50-65 and 87-96: the state read, the keyword test and, when no keyword
\* matched, the human-mode test, up to the next await
SelectUserState(i) ==
  /\ inv[i].pc = "select"
  /\ LET ev == LineEvent(i)
         s == inv[i].settings
         userState == Single(user_states, ev.userId)
         matchedKeyword == MatchedKeyword(HandoverKeywords(s.handover_keywords), UserMessage(ev))
         branch == Branch(s, userState, matchedKeyword, now)
         read == [inv[i] EXCEPT !.userState = userState, !.matchedKeyword = matchedKeyword,
                                !.d.reads = @ + 1, !.d.stored = userState, !.d.clock = now]
     IN  CASE branch = "handover" ->
                Set(i, [read EXCEPT !.pc = "profile", !.nickname = StoredNickname(userState),
                                    !.d.outcome = "human-handover"])
           [] branch = "hold" ->
                Set(i, [read EXCEPT !.pc = "loop", !.d.outcome = "human-mode-hold"])
           [] branch = "revert" ->
                Set(i, [read EXCEPT !.pc = "update"])
           [] branch = "drop" ->
                Set(i, [read EXCEPT !.pc = "loop", !.d.outcome = "silent-drop"])
           [] branch = "ai" ->
                Set(i, [read EXCEPT !.pc = "llm", !.d.outcome = "AI-reply"])
  /\ UNCHANGED <<now, settings, processed_events, user_states, tally, chat_logs>>

\* line 67: the profile fetch; lines 69-74 then build the row, reading the clock
GetProfile(i) ==
  /\ inv[i].pc = "profile"
  /\ \E fetched \in BOOLEAN, displayName \in DisplayNames :
       Set(i, [inv[i] EXCEPT !.pc = "upsert",
                             !.nickname = IF fetched THEN displayName ELSE @,
                             !.stamp = now,
                             !.d.profiles = @ + 1, !.d.profileFailed = ~fetched])
  /\ UNCHANGED <<now, settings, processed_events, user_states, tally, chat_logs>>

\* lines 69-74: `await supabase.from('user_states').upsert({...})`.  supabase-js
\* reports a failed request in `error` and does not throw; the handler drops what
\* the call returns, so line 76 follows whether the upsert reached the table
\* (landed) or was rejected and left the table as it was.
UpsertUserState(i) ==
  /\ inv[i].pc = "upsert"
  /\ \E landed \in BOOLEAN :
       LET u == LineEvent(i).userId
           table == IF landed
                      THEN Upsert(user_states,
                                  TableRow(u, inv[i].nickname, TRUE, inv[i].stamp))
                      ELSE user_states
       IN  /\ user_states' = table
           /\ Set(i, [inv[i] EXCEPT !.pc = "ack", !.d.writes = @ + 1,
                                     !.d.writeFailed = ~landed,
                                     !.d.wrote = Single(table, u),
                                     !.d.replaced = Single(user_states, u)])
  /\ UNCHANGED <<now, settings, processed_events, tally, chat_logs>>

\* line 76: the acknowledgement; replyMessage rejects when the delivery fails and
\* nothing catches it.  Line 78 then computes the roster.
ReplyHandover(i) ==
  /\ inv[i].pc = "ack"
  /\ \E delivered \in BOOLEAN :
       LET sent == [inv[i] EXCEPT !.d.replies = @ + 1, !.d.replyText = AckText,
                                  !.d.replyFailed = ~delivered]
           agentIds == AgentIds(inv[i].settings.agent_user_ids)
       IN  IF ~delivered
             THEN Set(i, [sent EXCEPT !.pc = "thrown"])
           ELSE IF agentIds # Unset /\ Len(agentIds) > 0
             THEN Set(i, [sent EXCEPT !.pc = "push", !.agentIds = agentIds, !.a = 1])
           ELSE Set(i, [sent EXCEPT !.pc = "loop", !.agentIds = agentIds])
  /\ Bump(LineEvent(i).webhookEventId, "replies")
  /\ UNCHANGED <<now, settings, processed_events, user_states, chat_logs>>

\* line 81: the text of the notification: nickname, keyword and message
Notification(nickname, matchedKeyword, userMessage) ==
  <<nickname, matchedKeyword, userMessage>>

\* lines 80-82: one pushMessage of the roster loop; a failure is caught and dropped
PushAgent(i) ==
  /\ inv[i].pc = "push"
  /\ \E delivered \in BOOLEAN :
       Set(i, [inv[i] EXCEPT !.d.pushes = @ + 1,
                             !.d.notice = Notification(inv[i].nickname, inv[i].matchedKeyword,
                                                       UserMessage(LineEvent(i))),
                             !.d.notified = Append(@, inv[i].agentIds[inv[i].a]),
                             !.d.pushFailures = IF delivered THEN @ ELSE @ + 1,
                             !.a = @ + 1,
                             !.pc = IF inv[i].a = Len(inv[i].agentIds) THEN "loop" ELSE "push"])
  /\ UNCHANGED <<now, settings, processed_events, user_states, tally, chat_logs>>

\* line 92: update({ is_human_mode: false }).eq('line_user_id', userId), awaited
\* with its result dropped as well: the update reaches the table (landed) or is
\* rejected and the row stays as it is; line 96 follows in both cases
UpdateUserState(i) ==
  /\ inv[i].pc = "update"
  /\ \E landed \in BOOLEAN :
       LET u == LineEvent(i).userId
           table == IF landed THEN Update(user_states, u, FALSE) ELSE user_states
           cleared == [inv[i] EXCEPT !.d.writes = @ + 1, !.d.writeFailed = ~landed,
                                     !.d.wrote = Single(table, u),
                                     !.d.replaced = Single(user_states, u)]
       IN  /\ user_states' = table
           /\ IF ~inv[i].settings.is_ai_enabled
                THEN Set(i, [cleared EXCEPT !.pc = "loop", !.d.outcome = "silent-drop"])
                ELSE Set(i, [cleared EXCEPT !.pc = "llm", !.d.outcome = "AI-reply"])
  /\ UNCHANGED <<now, settings, processed_events, tally, chat_logs>>

\* `if (r.ok) fileContent = await r.text()`: the fetch of the document has
\* answered with a success status and its body is still to be read
BodyFollows(doc) == doc.transport # "throw" /\ doc.ok

\* the request is made with fetch and its answer read with res.json(): the
\* responses request of a gpt-5 model and generateContent.
\* openai.chat.completions.create is one await.
UsesFetch(s) == s.active_ai # "gpt" \/ IsGPT5(s)

\* the fetch of the request has answered and res.json() is pending
Answered(resp) == resp.transport # "throw"

\* lines 118 and 156: the fetch of the reference document, the first await of
\* callGPT and callGemini when a URL is configured
FetchReferenceFile(i) ==
  /\ inv[i].pc = "llm"
  /\ inv[i].settings.reference_file_url # NULL
  /\ \E doc \in DocFetches :
       Set(i, [inv[i] EXCEPT !.pc = IF BodyFollows(doc) THEN "doc-body" ELSE "api",
                             !.call.doc = doc])
  /\ UNCHANGED <<now, settings, processed_events, user_states, tally, chat_logs>>

\* lines 118 and 158: await r.text() / await r.arrayBuffer()
ReadReferenceFile(i) ==
  /\ inv[i].pc = "doc-body"
  /\ Set(i, [inv[i] EXCEPT !.pc = "api"])
  /\ UNCHANGED <<now, settings, processed_events, user_states, tally, chat_logs>>

\* lines 102-106: the end of the call inside its try/catch, then the test of the
\* text; the locals of the call end with it
AfterCall(i, r) ==
  LET aiResult == AiResult(r)
  IN  [inv[i] EXCEPT !.aiResult = aiResult, !.d.llm = @ + 1, !.call = NoCall,
                     !.d.llmFailed = r.threw, !.d.failure = r.message,
                     !.pc = IF aiResult # <<>> THEN "reply" ELSE "loop"]

\* lines 129, 148 and 167: the request to the backend.  A fetch that has answered
\* leaves the body to be read; a fetch that rejects and the chat-completion
\* request end the call.
CallAI(i) ==
  /\ \/ inv[i].pc = "api"
     \/ inv[i].pc = "llm" /\ inv[i].settings.reference_file_url = NULL
  /\ \E resp \in Responses :
       IF UsesFetch(inv[i].settings) /\ Answered(resp)
         THEN /\ Set(i, [inv[i] EXCEPT !.pc = "api-body", !.call.resp = resp])
              /\ UNCHANGED tally
         ELSE /\ Set(i, AfterCall(i, CallBackend(inv[i].settings, inv[i].call.doc, resp)))
              /\ Bump(LineEvent(i).webhookEventId, "llm")
  /\ UNCHANGED <<now, settings, processed_events, user_states, chat_logs>>

\* lines 134-138 and 172-174: await res.json(), the test of the answer and the
\* end of the call
ReadAnswer(i) ==
  /\ inv[i].pc = "api-body"
  /\ Set(i, AfterCall(i, CallBackend(inv[i].settings, inv[i].call.doc, inv[i].call.resp)))
  /\ Bump(LineEvent(i).webhookEventId, "llm")
  /\ UNCHANGED <<now, settings, processed_events, user_states, chat_logs>>

\* line 107: the reply with the answer or the error text
ReplyAI(i) ==
  /\ inv[i].pc = "reply"
  /\ \E delivered \in BOOLEAN :
       Set(i, [inv[i] EXCEPT !.d.replies = @ + 1, !.d.replyText = inv[i].aiResult,
                             !.d.replyFailed = ~delivered,
                             !.pc = IF delivered THEN "loop" ELSE "thrown"])
  /\ Bump(LineEvent(i).webhookEventId, "replies")
  /\ UNCHANGED <<now, settings, processed_events, user_states, chat_logs>>

Next ==
  \/ Tick
  \/ \E i \in Invocations :
       \/ Start(i)
       \/ Loop(i)
       \/ InsertProcessedEvent(i)
       \/ SelectUserState(i)
       \/ GetProfile(i)
       \/ UpsertUserState(i)
       \/ ReplyHandover(i)
       \/ PushAgent(i)
       \/ UpdateUserState(i)
       \/ FetchReferenceFile(i)
       \/ ReadReferenceFile(i)
       \/ CallAI(i)
       \/ ReadAnswer(i)
       \/ ReplyAI(i)

Spec == Init /\ [][Next]_vars

\* ------------------------------------------------ the earlier handler
\* The handler that deduplicates on chat_logs and hands a window of the user's
\* turns to the backend, in its two versions; they differ in the columns of the
\* history query and in callGPT.
Variants == {"part_002", "part_003"}

EvAsk == TextEvent("e1", "u1", <<"b">>)

EarlierBatches == { <<EvAsk>>, <<EvCall>>, <<EvImage>> }

\* user_states when the request arrives: no row, or the row an earlier hand-over
\* of u1 at minute 0 left
EarlierStates == { {}, {TableRow("u1", "Amy", TRUE, 0)} }

\* a backend call answers, is refused or fails to connect
EarlierResponses == { resp \in Responses : resp.text = <<"<answer>">> \/ resp.error # NULL
                                            \/ resp.transport = "throw" }

\* a reference document is configured for one of the rows only
EarlierSettings ==
  { [SettingsRow(KeywordsAscii, 10, enabled, active, agents, model) EXCEPT
       !.reference_file_url = url,
       !.gemini_model_name = IF active = "gemini" THEN ModelGemini3 ELSE ModelGemini] :
      <<enabled, active, agents, model, url>> \in
        { <<TRUE, "gpt", RosterTwo, ModelGPT5, NULL>>, <<TRUE, "gpt", Unset, ModelO1, NULL>>,
          <<TRUE, "gemini", <<>>, ModelO1, DocUrl>>, <<FALSE, "gpt", <<>>, ModelGPT5, NULL>> } }

InitEarlier ==
  /\ now = 0
  /\ settings \in EarlierSettings
  /\ processed_events = {}
  /\ user_states \in EarlierStates
  /\ chat_logs \in InitialLogs
  /\ inv = [i \in Invocations |-> IdleInvocation]
  /\ tally = [e \in EventIds |-> NoTally]

\* settings.handover_keywords.split(',').map(k => k.trim())
HandoverKeywordsEarlier(cfg) ==
  LET pieces == Split(cfg) IN [n \in 1..Len(pieces) |-> Trim(pieces[n])]

\* handoverKeywords.some(k => userMessage.includes(k))
IsKeywordHit(keywords, userMessage) ==
  \E n \in 1..Len(keywords) : Includes(userMessage, keywords[n])

\* .upsert({ line_user_id, is_human_mode }): on the key conflict the columns named
\* are replaced, without a conflict a row with these columns is inserted
UpsertColumns(table, userId, humanMode) ==
  IF \E r \in table : r.line_user_id = userId
    THEN Update(table, userId, humanMode)
    ELSE table \cup {TableRow(userId, NULL, humanMode, NullTime)}

\* .upsert({ line_user_id, is_human_mode, last_human_interaction })
UpsertHandoverColumns(table, userId, humanMode, last) ==
  IF \E r \in table : r.line_user_id = userId
    THEN { IF r.line_user_id = userId
             THEN [r EXCEPT !.is_human_mode = humanMode, !.last_human_interaction = last]
             ELSE r : r \in table }
    ELSE table \cup {TableRow(userId, NULL, humanMode, last)}

\* callGemini with the history: one content per turn, then the user parts
CallGeminiHistory(s, history, currentMessage, doc, resp) ==
  Called(<<[ApiCall("generateContent", FilePart(s, doc), GenerationConfigThinking(s)) EXCEPT
              !.messages =
                [n \in 1..Len(history) |->
                   [role |-> IF history[n].sender = "user" THEN "user" ELSE "model",
                    content |-> history[n].message]]
                  \o <<[role |-> "user", content |-> currentMessage]>>]>>,
         Outcome(resp, "Gemini API Error"))

\* the message of the error with which the Gemini SDK rejects when the request
\* fails or the API refuses it; the SDK builds it
SdkError == "<GoogleGenerativeAI error>"

\* callGemini through the SDK: startChat with the history, sendMessage with the
\* prompt parts, then response.text()
CallGeminiChat(s, history, currentMessage, doc, resp) ==
  Called(<<[ApiCall("sendMessage", FilePart(s, doc), GenerationConfig) EXCEPT
              !.messages =
                [n \in 1..Len(history) |->
                   [role |-> IF history[n].sender = "user" THEN "user" ELSE "model",
                    content |-> history[n].message]]
                  \o <<[role |-> "user", content |-> currentMessage]>>]>>,
         IF resp.transport = "throw" \/ ~resp.ok \/ resp.error # NULL THEN Threw(SdkError)
         ELSE Returned(OrEmpty(resp.text)))

\* callGPT of the handler without dedup: the answer of the responses request is
\* read without a test of its status, a failed chat-completion request rejects
CallGPTLogged(s, history, currentMessage, doc, resp) ==
  IF IsGPT5(s)
    THEN Called(<<ResponsesRequest(s, history, currentMessage, doc)>>,
                IF resp.transport = "throw" THEN Threw(resp.message)
                ELSE ReturnedWithId(OrEmpty(resp.text), resp.id))
    ELSE Called(<<CompletionRequest(s, history, currentMessage, doc,
                                    {"temperature", "max_tokens"})>>,
                OutcomeWithId(resp, resp.statusText))

\* the call of the configured backend in the version that runs
CallBackendEarlier(variant, s, history, currentMessage, doc, resp, chat) ==
  IF variant = "part_003"
    THEN IF s.active_ai = "gpt"
           THEN CallGPTContinuation(s, history, currentMessage, doc, resp, chat)
           ELSE CallGeminiHistory(s, history, currentMessage, doc, resp)
  ELSE IF s.active_ai # "gpt" THEN CallGeminiChat(s, history, currentMessage, doc, resp)
  ELSE IF variant = "part_002"
    THEN CallGPTPrefixed(s, history, currentMessage, doc, resp, chat)
    ELSE CallGPTLogged(s, history, currentMessage, doc, resp)

\* the request that a call ended with is the chat-completion request that follows
\* a failed responses request
FellBack(r) == Len(r.calls) = 2

\* the advice the older version appends to the error text
AiErrorHint == "<check the model name or the key>"

\* the text of the catch block around the call; the messages thrown are not empty.
\* The handler without dedup has no catch block.
AiResultEarlier(variant, s, r) ==
  IF ~r.threw \/ variant = "logged" THEN r.text
  ELSE IF variant = "part_003" THEN <<AiErrorPrefix, r.message>>
  ELSE IF s.active_ai = "gpt" THEN <<AiErrorPrefix>> \o r.message \o <<AiErrorHint>>
  ELSE <<AiErrorPrefix, r.message, AiErrorHint>>

\* the requests that reach the earlier handlers: the platform's, a GET and a POST
\* signed by someone else
RequestsOf(batches) ==
  {Request("GET", <<EvAsk>>, ChannelSecret)}
    \cup {Request("POST", b, k) : b \in batches, k \in {ChannelSecret, ForgedSecret}}

\* the start of a handler up to the parsing of the body: the method, the settings
\* and the signature are tested as in the final handler
Opened(i, variant, request, fetch, pc) ==
  LET status == Rejection(request, fetch, settings)
      got == [inv[i] EXCEPT !.variant = variant, !.request = request,
                            !.fetch = IF request.method = "POST" THEN fetch ELSE "none"]
  IN  IF status # 0
        THEN [got EXCEPT !.pc = "returned", !.status = status]
        ELSE [got EXCEPT !.pc = pc, !.settings = settings, !.parsed = TRUE,
                         !.events = request.body]

\* a second request is made to the same version with the body of the first, as a
\* redelivery is
Redelivers(i, variant, request) ==
  \A j \in Invocations :
    j < i => inv[j].variant = variant /\ inv[j].request.body = request.body

StartEarlier(i) ==
  /\ inv[i].pc = "idle"
  /\ \A j \in Invocations : j < i => inv[j].pc # "idle"
  /\ \E variant \in Variants, request \in RequestsOf(EarlierBatches),
        fetch \in SettingsFetches :
       /\ Redelivers(i, variant, request)
       /\ Set(i, Opened(i, variant, request, fetch, "e-loop"))
  /\ UNCHANGED <<now, settings, processed_events, user_states, chat_logs, tally>>

\* the for loop and the test of the event type; the text is not trimmed and the
\* event id is not tested
LoopEarlier(i) ==
  /\ inv[i].pc = "e-loop"
  /\ IF inv[i].k = Len(inv[i].events)
       THEN Set(i, [inv[i] EXCEPT !.pc = "returned", !.status = 200])
       ELSE LET ev == inv[i].events[inv[i].k + 1]
                done == IF inv[i].k = 0 THEN inv[i].log
                        ELSE Append(inv[i].log, [outcome |-> inv[i].d.outcome,
                                                 wrote |-> inv[i].d.wrote])
                fresh == [inv[i] EXCEPT !.k = @ + 1, !.userState = NoRow, !.nickname = NULL,
                                        !.log = done, !.stamp = NullTime, !.history = <<>>,
                                        !.agentIds = Unset, !.a = 0, !.aiResult = <<>>,
                                        !.call = NoCall, !.d = NoEffects]
            IN  IF ev.type = "message" /\ ev.mtype = "text"
                  THEN Set(i, [fresh EXCEPT !.pc = IF inv[i].variant = "logged"
                                                    THEN "e-insert" ELSE "e-lookup"])
                  ELSE Set(i, [fresh EXCEPT !.d.outcome = "ignored"])
  /\ UNCHANGED <<now, settings, processed_events, user_states, chat_logs, tally>>

\* the lookup of the event id in chat_logs and `if (existingLog) continue`
SelectChatLog(i) ==
  /\ inv[i].pc = "e-lookup"
  /\ LET e == LineEvent(i).webhookEventId
         existingLog == ExistingLog(chat_logs, e)
         seen == [inv[i] EXCEPT !.d.recorded = existingLog, !.d.clock = now]
     IN  IF existingLog
           THEN /\ Set(i, [seen EXCEPT !.pc = "e-loop", !.d.gate = "Duplicate",
                                       !.d.outcome = "duplicate-drop"])
                /\ UNCHANGED tally
           ELSE /\ Set(i, [seen EXCEPT !.pc = "e-insert", !.d.gate = "Admitted"])
                /\ Bump(e, "admitted")
  /\ UNCHANGED <<now, settings, processed_events, user_states, chat_logs>>

\* the insert of the user's message into chat_logs
InsertUserLog(i) ==
  /\ inv[i].pc = "e-insert"
  /\ LET ev == LineEvent(i)
     IN  chat_logs' = Insert(chat_logs,
                             ChatLog(ev.userId,
                                     IF inv[i].variant = "logged" THEN NULL
                                     ELSE ev.webhookEventId,
                                     ev.text, "user", NULL, NULL))
  /\ Set(i, [inv[i] EXCEPT !.pc = "e-state", !.d.inserted = @ + 1])
  /\ UNCHANGED <<now, settings, processed_events, user_states, tally>>

\* the read of the user's row, the keyword test and the human-mode timer
SelectUserStateEarlier(i) ==
  /\ inv[i].pc = "e-state"
  /\ LET ev == LineEvent(i)
         s == inv[i].settings
         userState == Single(user_states, ev.userId)
         read == [inv[i] EXCEPT !.userState = userState, !.d.reads = @ + 1,
                                !.d.stored = userState, !.d.clock = now]
     IN  IF IsKeywordHit(HandoverKeywordsEarlier(s.handover_keywords), ev.text)
           THEN IF inv[i].variant = "logged"
                  THEN Set(i, [read EXCEPT !.pc = "e-upsert", !.stamp = now,
                                           !.d.outcome = "human-handover"])
                  ELSE Set(i, [read EXCEPT !.pc = "e-profile", !.nickname = Placeholder,
                                           !.d.outcome = "human-handover"])
         ELSE IF userState.exists /\ userState.is_human_mode
                 /\ now * MsPerMinute - GetTime(userState.last_human_interaction)
                      < s.handover_timeout_minutes * 60 * 1000
           THEN Set(i, [read EXCEPT !.pc = "e-loop", !.d.outcome = "human-mode-hold"])
         ELSE IF userState.exists /\ userState.is_human_mode
           THEN Set(i, [read EXCEPT !.pc = "e-revert"])
         ELSE IF ~s.is_ai_enabled
           THEN Set(i, [read EXCEPT !.pc = "e-loop", !.d.outcome = "silent-drop"])
         ELSE Set(i, [read EXCEPT !.pc = "e-context", !.d.outcome = "AI-reply"])
  /\ UNCHANGED <<now, settings, processed_events, user_states, chat_logs, tally>>

GetProfileEarlier(i) ==
  /\ inv[i].pc = "e-profile"
  /\ \E fetched \in BOOLEAN, displayName \in DisplayNames :
       Set(i, [inv[i] EXCEPT !.pc = "e-upsert",
                             !.nickname = IF fetched THEN displayName ELSE @,
                             !.stamp = now,
                             !.d.profiles = @ + 1, !.d.profileFailed = ~fetched])
  /\ UNCHANGED <<now, settings, processed_events, user_states, chat_logs, tally>>

\* the upsert of the hand-over; the handler without dedup leaves the nickname out
UpsertHandoverEarlier(i) ==
  /\ inv[i].pc = "e-upsert"
  /\ LET u == LineEvent(i).userId
         table == IF inv[i].variant = "logged"
                    THEN UpsertHandoverColumns(user_states, u, TRUE, inv[i].stamp)
                    ELSE Upsert(user_states, TableRow(u, inv[i].nickname, TRUE, inv[i].stamp))
     IN  /\ user_states' = table
         /\ Set(i, [inv[i] EXCEPT !.pc = "e-ack", !.d.writes = @ + 1,
                                   !.d.wrote = Single(table, u),
                                   !.d.replaced = Single(user_states, u)])
  /\ UNCHANGED <<now, settings, processed_events, chat_logs, tally>>

\* the acknowledgement, which rejects when the delivery fails, and the roster; the
\* handler without dedup notifies nobody
ReplyHandoverEarlier(i) ==
  /\ inv[i].pc = "e-ack"
  /\ \E delivered \in BOOLEAN :
       LET sent == [inv[i] EXCEPT !.d.replies = @ + 1, !.d.replyText = AckText,
                                  !.d.replyFailed = ~delivered]
           agentIds == AgentIds(inv[i].settings.agent_user_ids)
       IN  IF ~delivered
             THEN Set(i, [sent EXCEPT !.pc = "thrown"])
           ELSE IF inv[i].variant = "logged"
             THEN Set(i, [sent EXCEPT !.pc = "e-loop"])
           ELSE IF agentIds # Unset /\ Len(agentIds) > 0
             THEN Set(i, [sent EXCEPT !.pc = "e-push", !.agentIds = agentIds, !.a = 1])
           ELSE Set(i, [sent EXCEPT !.pc = "e-loop", !.agentIds = agentIds])
  /\ Bump(LineEvent(i).webhookEventId, "replies")
  /\ UNCHANGED <<now, settings, processed_events, user_states, chat_logs>>

\* one pushMessage inside its try/catch; the text names the nickname and the user
PushAgentEarlier(i) ==
  /\ inv[i].pc = "e-push"
  /\ \E delivered \in BOOLEAN :
       Set(i, [inv[i] EXCEPT !.d.pushes = @ + 1,
                             !.d.notice = <<inv[i].nickname, LineEvent(i).userId>>,
                             !.d.notified = Append(@, inv[i].agentIds[inv[i].a]),
                             !.d.pushFailures = IF delivered THEN @ ELSE @ + 1,
                             !.a = @ + 1,
                             !.pc = IF inv[i].a = Len(inv[i].agentIds) THEN "e-loop"
                                    ELSE "e-push"])
  /\ UNCHANGED <<now, settings, processed_events, user_states, chat_logs, tally>>

\* the upsert that reverts a timed-out user, then the test of is_ai_enabled
UpsertRevert(i) ==
  /\ inv[i].pc = "e-revert"
  /\ LET u == LineEvent(i).userId
         table == UpsertColumns(user_states, u, FALSE)
         cleared == [inv[i] EXCEPT !.d.writes = @ + 1, !.d.wrote = Single(table, u),
                                   !.d.replaced = Single(user_states, u)]
     IN  /\ user_states' = table
         /\ IF ~inv[i].settings.is_ai_enabled
              THEN Set(i, [cleared EXCEPT !.pc = "e-loop", !.d.outcome = "silent-drop"])
              ELSE Set(i, [cleared EXCEPT !.pc = "e-context", !.d.outcome = "AI-reply"])
  /\ UNCHANGED <<now, settings, processed_events, chat_logs, tally>>

\* the history query and contextLogs.reverse()
SelectContextLogs(i) ==
  /\ inv[i].pc = "e-context"
  /\ LET u == LineEvent(i).userId
         history == IF inv[i].variant = "part_003" THEN ContextLogs(chat_logs, u)
                    ELSE ContextLogsWithoutIds(chat_logs, u)
     IN  Set(i, [inv[i] EXCEPT !.pc = "e-llm", !.history = history, !.d.logs = chat_logs])
  /\ UNCHANGED <<now, settings, processed_events, user_states, chat_logs, tally>>

\* the fetch of the reference document, the first await of callGPT and callGemini
\* when a URL is configured
FetchReferenceFileEarlier(i) ==
  /\ inv[i].pc = "e-llm"
  /\ inv[i].settings.reference_file_url # NULL
  /\ \E doc \in DocFetches :
       Set(i, [inv[i] EXCEPT !.pc = IF BodyFollows(doc) THEN "e-doc-body" ELSE "e-api",
                             !.call.doc = doc])
  /\ UNCHANGED <<now, settings, processed_events, user_states, chat_logs, tally>>

\* await response.text() / await response.arrayBuffer()
ReadReferenceFileEarlier(i) ==
  /\ inv[i].pc = "e-doc-body"
  /\ Set(i, [inv[i] EXCEPT !.pc = "e-api"])
  /\ UNCHANGED <<now, settings, processed_events, user_states, chat_logs, tally>>

\* the first request is made with fetch and its answer read with res.json(): the
\* responses request of a gpt-5 model, and generateContent in part_003.  The
\* other versions call Gemini through the SDK, whose second await, of
\* result.response, is of a value that is no promise.
UsesFetchEarlier(variant, s) ==
  IF s.active_ai = "gpt" THEN IsGPT5(s) ELSE variant = "part_003"

\* the end of the backend call: the catch block where there is one, then the test
\* of aiResult.text; the locals of the call end with it.  Without a catch block
\* the exception leaves the handler.
EndOfCall(i, r) ==
  LET text == AiResultEarlier(inv[i].variant, inv[i].settings, r)
  IN  [inv[i] EXCEPT !.aiResult = text, !.call = [NoCall EXCEPT !.result = r],
                     !.d.llm = @ + 1, !.d.llmFailed = r.threw,
                     !.pc = IF inv[i].variant = "logged" /\ r.threw THEN "thrown"
                            ELSE IF text # <<>> THEN "e-reply" ELSE "e-loop"]

\* the first request to the backend.  A fetch that has answered leaves the body
\* to be read; when the responses request of a gpt-5 model rejects, the catch
\* block of callGPT lets it pass and the chat-completion request is pending.
CallAIEarlier(i) ==
  /\ \/ inv[i].pc = "e-api"
     \/ inv[i].pc = "e-llm" /\ inv[i].settings.reference_file_url = NULL
  /\ \E resp \in EarlierResponses :
       LET r == CallBackendEarlier(inv[i].variant, inv[i].settings, inv[i].history,
                                   LineEvent(i).text, inv[i].call.doc, resp, resp)
       IN  IF UsesFetchEarlier(inv[i].variant, inv[i].settings) /\ Answered(resp)
             THEN /\ Set(i, [inv[i] EXCEPT !.pc = "e-api-body", !.call.resp = resp])
                  /\ UNCHANGED tally
           ELSE IF FellBack(r)
             THEN /\ Set(i, [inv[i] EXCEPT !.pc = "e-fallback", !.call.resp = resp])
                  /\ UNCHANGED tally
             ELSE /\ Set(i, EndOfCall(i, r))
                  /\ Bump(LineEvent(i).webhookEventId, "llm")
  /\ UNCHANGED <<now, settings, processed_events, user_states, chat_logs>>

\* await res.json() and the test of the answer: the call ends, or an error that
\* the catch block of callGPT lets pass leaves the chat-completion request pending
ReadAnswerEarlier(i) ==
  /\ inv[i].pc = "e-api-body"
  /\ LET r == CallBackendEarlier(inv[i].variant, inv[i].settings, inv[i].history,
                                 LineEvent(i).text, inv[i].call.doc, inv[i].call.resp,
                                 inv[i].call.resp)
     IN  IF FellBack(r)
           THEN /\ Set(i, [inv[i] EXCEPT !.pc = "e-fallback"])
                /\ UNCHANGED tally
           ELSE /\ Set(i, EndOfCall(i, r))
                /\ Bump(LineEvent(i).webhookEventId, "llm")
  /\ UNCHANGED <<now, settings, processed_events, user_states, chat_logs>>

\* the chat-completion request after the responses request has failed
FallBackEarlier(i) ==
  /\ inv[i].pc = "e-fallback"
  /\ \E chat \in EarlierResponses :
       Set(i, EndOfCall(i, CallBackendEarlier(inv[i].variant, inv[i].settings,
                                              inv[i].history, LineEvent(i).text,
                                              inv[i].call.doc, inv[i].call.resp, chat)))
  /\ Bump(LineEvent(i).webhookEventId, "llm")
  /\ UNCHANGED <<now, settings, processed_events, user_states, chat_logs>>

\* the reply with the answer or the error text
ReplyAIEarlier(i) ==
  /\ inv[i].pc = "e-reply"
  /\ \E delivered \in BOOLEAN :
       Set(i, [inv[i] EXCEPT !.d.replies = @ + 1, !.d.replyText = inv[i].aiResult,
                             !.d.replyFailed = ~delivered,
                             !.pc = IF delivered THEN "e-answer" ELSE "thrown"])
  /\ Bump(LineEvent(i).webhookEventId, "replies")
  /\ UNCHANGED <<now, settings, processed_events, user_states, chat_logs>>

\* the insert of the answer into chat_logs, with the id of the response if any
InsertAiLog(i) ==
  /\ inv[i].pc = "e-answer"
  /\ chat_logs' = Insert(chat_logs,
                         ChatLog(LineEvent(i).userId, NULL, inv[i].aiResult, "ai",
                                 inv[i].settings.active_ai,
                                 IF inv[i].call.result.threw THEN NULL
                                 ELSE inv[i].call.result.id))
  /\ Set(i, [inv[i] EXCEPT !.pc = "e-loop", !.d.inserted = @ + 1])
  /\ UNCHANGED <<now, settings, processed_events, user_states, tally>>

NextEarlier ==
  \/ Tick
  \/ \E i \in Invocations :
       \/ StartEarlier(i)
       \/ LoopEarlier(i)
       \/ SelectChatLog(i)
       \/ InsertUserLog(i)
       \/ SelectUserStateEarlier(i)
       \/ GetProfileEarlier(i)
       \/ UpsertHandoverEarlier(i)
       \/ ReplyHandoverEarlier(i)
       \/ PushAgentEarlier(i)
       \/ UpsertRevert(i)
       \/ SelectContextLogs(i)
       \/ FetchReferenceFileEarlier(i)
       \/ ReadReferenceFileEarlier(i)
       \/ CallAIEarlier(i)
       \/ ReadAnswerEarlier(i)
       \/ FallBackEarlier(i)
       \/ ReplyAIEarlier(i)
       \/ InsertAiLog(i)

SpecEarlier == InitEarlier /\ [][NextEarlier]_vars

\* ------------------------------------------------ the handler without dedup
\* line-webhook.ts 189-313: every text message is logged without its event id,
\* a hand-over writes the flag and the timestamp and notifies nobody, and the
\* backend call is not inside a try/catch.  Its steps are those of the earlier
\* handler under the variant "logged".
StartLogged(i) ==
  /\ inv[i].pc = "idle"
  /\ \A j \in Invocations : j < i => inv[j].pc # "idle"
  /\ \E request \in RequestsOf(EarlierBatches), fetch \in SettingsFetches :
       /\ Redelivers(i, "logged", request)
       /\ Set(i, Opened(i, "logged", request, fetch, "e-loop"))
  /\ UNCHANGED <<now, settings, processed_events, user_states, chat_logs, tally>>

NextLogged ==
  \/ Tick
  \/ \E i \in Invocations :
       \/ StartLogged(i)
       \/ LoopEarlier(i)
       \/ InsertUserLog(i)
       \/ SelectUserStateEarlier(i)
       \/ UpsertHandoverEarlier(i)
       \/ ReplyHandoverEarlier(i)
       \/ UpsertRevert(i)
       \/ SelectContextLogs(i)
       \/ FetchReferenceFileEarlier(i)
       \/ ReadReferenceFileEarlier(i)
       \/ CallAIEarlier(i)
       \/ ReadAnswerEarlier(i)
       \/ ReplyAIEarlier(i)
       \/ InsertAiLog(i)

SpecLogged == InitEarlier /\ [][NextLogged]_vars

\* ---------------------- the handler that deduplicates on last_event_id
\* part_002 353-458: the event id of the last message handled is kept in the
\* user's row of user_states, which is taken to have the column last_event_id
\* that the code reads and writes.  No chat_logs, no history.  From the profile
\* fetch on the code is that of the final handler, except for the upsert, which
\* leaves last_event_id alone, and for callGemini.
Undefined == "<undefined>"

\* a row of user_states with the column last_event_id
MarkedRow(userId, nickname, humanMode, last, lastEvent) ==
  [ line_user_id |-> userId, nickname |-> nickname, is_human_mode |-> humanMode,
    last_human_interaction |-> last, last_event_id |-> lastEvent ]

\* (lineEvent as any).webhookEventId
EventIdOf(ev) == IF ev.webhookEventId = NULL THEN Undefined ELSE ev.webhookEventId

\* userState?.last_event_id: undefined without a row, null when the column is empty
LastEventId(table, userId) ==
  LET rows == {r \in table : r.line_user_id = userId}
  IN  IF Cardinality(rows) = 1 THEN (CHOOSE r \in rows : TRUE).last_event_id ELSE Undefined

\* .upsert({ line_user_id, last_event_id }): a key that is undefined is left out
\* of the request
UpsertLastEventId(table, userId, eventId) ==
  IF \E r \in table : r.line_user_id = userId
    THEN { IF r.line_user_id = userId /\ eventId # Undefined
             THEN [r EXCEPT !.last_event_id = eventId] ELSE r : r \in table }
    ELSE table \cup {MarkedRow(userId, NULL, FALSE, NullTime,
                                IF eventId = Undefined THEN NULL ELSE eventId)}

\* .upsert({ line_user_id, nickname, is_human_mode, last_human_interaction })
UpsertNamed(table, userId, nickname, humanMode, last) ==
  IF \E r \in table : r.line_user_id = userId
    THEN { IF r.line_user_id = userId
             THEN [r EXCEPT !.nickname = nickname, !.is_human_mode = humanMode,
                            !.last_human_interaction = last]
             ELSE r : r \in table }
    ELSE table \cup {MarkedRow(userId, nickname, humanMode, last, NULL)}

\* the branch after the keyword test; the timeout is
\* settings.handover_timeout_minutes * 60 * 1000, without a default
BranchLastEvent(s, userState, matchedKeyword, clock) ==
  IF matchedKeyword # Unset THEN "handover"
  ELSE IF userState.exists /\ userState.is_human_mode
    THEN IF clock * MsPerMinute - GetTime(userState.last_human_interaction)
              < s.handover_timeout_minutes * 60 * 1000
           THEN "hold" ELSE "revert"
  ELSE IF ~s.is_ai_enabled THEN "drop"
  ELSE "ai"

CallGeminiThinking(s, doc, resp) ==
  Called(<<ApiCall("generateContent", FilePart(s, doc), GenerationConfigThinking(s))>>,
         Outcome(resp, "Gemini API Error"))

CallBackendLastEvent(s, doc, resp) ==
  IF s.active_ai = "gpt" THEN CallGPT(s, doc, resp) ELSE CallGeminiThinking(s, doc, resp)

LastEventBatches == { <<EvHelp, EvPlain>>, <<EvCall>>, <<EvImage, EvBlank>> }

LastEventStates == { {}, {MarkedRow("u1", "Amy", TRUE, 0, NULL)} }

LastEventSettings ==
  { [SettingsRow(keywords, timeout, enabled, active, agents, model) EXCEPT
       !.gemini_model_name = gemini, !.reference_file_url = url] :
      <<keywords, timeout, enabled, active, agents, model, gemini, url>> \in
        { <<KeywordsAscii, 10, TRUE, "gpt", RosterTwo, ModelGPT5, ModelGemini, NULL>>,
          <<KeywordsWide, 0, TRUE, "gemini", Unset, ModelO1, ModelGemini3, DocUrl>>,
          <<Unset, 10, TRUE, "gemini", <<>>, ModelO1, ModelGemini, NULL>>,
          <<KeywordsAscii, 10, FALSE, "gpt", <<>>, ModelO1, ModelGemini, NULL>> } }

InitLastEvent ==
  /\ now = 0
  /\ settings \in LastEventSettings
  /\ processed_events = {}
  /\ user_states \in LastEventStates
  /\ chat_logs = <<>>
  /\ inv = [i \in Invocations |-> IdleInvocation]
  /\ tally = [e \in EventIds |-> NoTally]

StartLastEvent(i) ==
  /\ inv[i].pc = "idle"
  /\ \A j \in Invocations : j < i => inv[j].pc # "idle"
  /\ \E request \in RequestsOf(LastEventBatches), fetch \in SettingsFetches :
       /\ Redelivers(i, "last_event_id", request)
       /\ Set(i, Opened(i, "last_event_id", request, fetch, "loop"))
  /\ UNCHANGED <<now, settings, processed_events, user_states, chat_logs, tally>>

\* the for loop and the test of the event type
LoopLastEvent(i) ==
  /\ inv[i].pc = "loop"
  /\ IF inv[i].k = Len(inv[i].events)
       THEN Set(i, [inv[i] EXCEPT !.pc = "returned", !.status = 200])
       ELSE LET ev == inv[i].events[inv[i].k + 1]
                done == IF inv[i].k = 0 THEN inv[i].log
                        ELSE Append(inv[i].log, [outcome |-> inv[i].d.outcome,
                                                 wrote |-> inv[i].d.wrote])
                fresh == [inv[i] EXCEPT !.k = @ + 1, !.userState = NoRow, !.nickname = NULL,
                                        !.log = done,
                                        !.matchedKeyword = Unset, !.stamp = NullTime,
                                        !.agentIds = Unset, !.a = 0, !.aiResult = <<>>,
                                        !.d = NoEffects]
            IN  IF ev.type = "message" /\ ev.mtype = "text"
                  THEN Set(i, [fresh EXCEPT !.pc = "select"])
                  ELSE Set(i, [fresh EXCEPT !.d.outcome = "ignored"])
  /\ UNCHANGED <<now, settings, processed_events, user_states, tally, chat_logs>>

\* the read of the user's row and the test of its last_event_id
SelectLastEvent(i) ==
  /\ inv[i].pc = "select"
  /\ LET ev == LineEvent(i)
         userState == Single(user_states, ev.userId)
         repeated == LastEventId(user_states, ev.userId) = EventIdOf(ev)
         read == [inv[i] EXCEPT !.userState = userState, !.d.reads = @ + 1,
                                !.d.stored = userState, !.d.clock = now,
                                !.d.recorded = repeated]
     IN  IF repeated
           THEN /\ Set(i, [read EXCEPT !.pc = "loop", !.d.gate = "Duplicate",
                                        !.d.outcome = "duplicate-drop"])
                /\ UNCHANGED tally
           ELSE /\ Set(i, [read EXCEPT !.pc = "mark", !.d.gate = "Admitted"])
                /\ Bump(ev.webhookEventId, "admitted")
  /\ UNCHANGED <<now, settings, processed_events, user_states, chat_logs>>

\* the upsert of last_event_id, then the keyword test on the trimmed text and the
\* human-mode test on the row read before the upsert
MarkLastEvent(i) ==
  /\ inv[i].pc = "mark"
  /\ LET ev == LineEvent(i)
         s == inv[i].settings
         table == UpsertLastEventId(user_states, ev.userId, EventIdOf(ev))
         matchedKeyword == MatchedKeyword(HandoverKeywords(s.handover_keywords), Trim(ev.text))
         branch == BranchLastEvent(s, inv[i].userState, matchedKeyword, now)
         marked == [inv[i] EXCEPT !.matchedKeyword = matchedKeyword, !.d.writes = @ + 1]
     IN  /\ user_states' = table
         /\ CASE branch = "handover" ->
                   Set(i, [marked EXCEPT !.pc = "profile", !.nickname = Placeholder,
                                         !.d.outcome = "human-handover"])
              [] branch = "hold" ->
                   Set(i, [marked EXCEPT !.pc = "loop", !.d.outcome = "human-mode-hold"])
              [] branch = "revert" ->
                   Set(i, [marked EXCEPT !.pc = "update"])
              [] branch = "drop" ->
                   Set(i, [marked EXCEPT !.pc = "loop", !.d.outcome = "silent-drop"])
              [] branch = "ai" ->
                   Set(i, [marked EXCEPT !.pc = "llm", !.d.outcome = "AI-reply"])
  /\ UNCHANGED <<now, settings, processed_events, tally, chat_logs>>

\* the upsert of the hand-over
UpsertHandoverLastEvent(i) ==
  /\ inv[i].pc = "upsert"
  /\ LET u == LineEvent(i).userId
         table == UpsertNamed(user_states, u, inv[i].nickname, TRUE, inv[i].stamp)
     IN  /\ user_states' = table
         /\ Set(i, [inv[i] EXCEPT !.pc = "ack", !.d.writes = @ + 1,
                                   !.d.wrote = Single(table, u),
                                   !.d.replaced = Single(user_states, u)])
  /\ UNCHANGED <<now, settings, processed_events, tally, chat_logs>>

\* the end of the call inside its try/catch, then the test of the text
AfterCallLastEvent(i, r) ==
  LET aiResult == AiResult(r)
  IN  [inv[i] EXCEPT !.aiResult = aiResult, !.d.llm = @ + 1,
                     !.call = [NoCall EXCEPT !.result = r],
                     !.d.llmFailed = r.threw, !.d.failure = r.message,
                     !.pc = IF aiResult # <<>> THEN "reply" ELSE "loop"]

\* the request to the backend; a fetch that has answered leaves the body to be read
CallAILastEvent(i) ==
  /\ \/ inv[i].pc = "api"
     \/ inv[i].pc = "llm" /\ inv[i].settings.reference_file_url = NULL
  /\ \E resp \in Responses :
       IF UsesFetch(inv[i].settings) /\ Answered(resp)
         THEN /\ Set(i, [inv[i] EXCEPT !.pc = "api-body", !.call.resp = resp])
              /\ UNCHANGED tally
         ELSE /\ Set(i, AfterCallLastEvent(i, CallBackendLastEvent(inv[i].settings,
                                                                    inv[i].call.doc, resp)))
              /\ Bump(LineEvent(i).webhookEventId, "llm")
  /\ UNCHANGED <<now, settings, processed_events, user_states, chat_logs>>

\* await res.json(), the test of the answer and the end of the call
ReadAnswerLastEvent(i) ==
  /\ inv[i].pc = "api-body"
  /\ Set(i, AfterCallLastEvent(i, CallBackendLastEvent(inv[i].settings, inv[i].call.doc,
                                                       inv[i].call.resp)))
  /\ Bump(LineEvent(i).webhookEventId, "llm")
  /\ UNCHANGED <<now, settings, processed_events, user_states, chat_logs>>

NextLastEvent ==
  \/ Tick
  \/ \E i \in Invocations :
       \/ StartLastEvent(i)
       \/ LoopLastEvent(i)
       \/ SelectLastEvent(i)
       \/ MarkLastEvent(i)
       \/ GetProfile(i)
       \/ UpsertHandoverLastEvent(i)
       \/ ReplyHandover(i)
       \/ PushAgent(i)
       \/ UpdateUserState(i)
       \/ FetchReferenceFile(i)
       \/ ReadReferenceFile(i)
       \/ CallAILastEvent(i)
       \/ ReadAnswerLastEvent(i)
       \/ ReplyAI(i)

SpecLastEvent == InitLastEvent /\ [][NextLastEvent]_vars

\* --------------------------------------------------- the backend calls alone
\* callGPT and callGemini of the handler, and callGPT of the continuation variant,
\* applied to every configuration, document fetch and backend answer.
BackendSettings ==
  { [SettingsRow(Unset, 10, TRUE, active, Unset, model) EXCEPT !.reference_file_url = url] :
      active \in {"gpt", "gemini"}, model \in {ModelGPT5, ModelO1, ModelO3, ModelGPT4},
      url \in {DocUrl, NULL} }

InitBackend ==
  /\ now = 0
  /\ settings \in BackendSettings
  /\ processed_events = {}
  /\ user_states = {}
  /\ chat_logs \in InitialLogs
  /\ inv = [i \in Invocations |-> IdleInvocation]
  /\ tally = [e \in EventIds |-> NoTally]

\* lines 118 and 156: the fetch of the reference document
FetchDocument(i) ==
  /\ inv[i].pc = "idle"
  /\ settings.reference_file_url # NULL
  /\ \E doc \in DocFetches :
       Set(i, [inv[i] EXCEPT !.pc = IF BodyFollows(doc) THEN "fetched-body" ELSE "fetched",
                             !.settings = settings, !.call.doc = doc])
  /\ UNCHANGED <<now, settings, processed_events, user_states, tally, chat_logs>>

\* lines 118 and 158: await r.text() / await r.arrayBuffer()
ReadDocument(i) ==
  /\ inv[i].pc = "fetched-body"
  /\ Set(i, [inv[i] EXCEPT !.pc = "fetched"])
  /\ UNCHANGED <<now, settings, processed_events, user_states, tally, chat_logs>>

\* lines 129, 148 and 167: the request of the configured backend; a fetch that
\* has answered leaves the body to be read
Call(i) ==
  /\ \/ inv[i].pc = "fetched"
     \/ inv[i].pc = "idle" /\ settings.reference_file_url = NULL
  /\ \E resp \in Responses :
       IF UsesFetch(settings) /\ Answered(resp)
         THEN Set(i, [inv[i] EXCEPT !.pc = "requested", !.settings = settings,
                                    !.call.resp = resp])
         ELSE Set(i, [inv[i] EXCEPT !.pc = "called", !.settings = settings,
                                    !.call.resp = resp,
                                    !.call.result = CallBackend(settings, inv[i].call.doc,
                                                                resp)])
  /\ UNCHANGED <<now, settings, processed_events, user_states, tally, chat_logs>>

\* lines 134-138 and 172-174: await res.json() and the test of the answer
ReadBody(i) ==
  /\ inv[i].pc = "requested"
  /\ Set(i, [inv[i] EXCEPT !.pc = "called",
                            !.call.result = CallBackend(settings, inv[i].call.doc,
                                                        inv[i].call.resp)])
  /\ UNCHANGED <<now, settings, processed_events, user_states, tally, chat_logs>>

\* the history query of the continuation variant, for a message of user u1
QueryHistory(i) ==
  /\ inv[i].pc = "idle"
  /\ settings.active_ai = "gpt"
  /\ Set(i, [inv[i] EXCEPT !.pc = "c-history", !.settings = settings,
                            !.call.history = ContextLogs(chat_logs, "u1")])
  /\ UNCHANGED <<now, settings, processed_events, user_states, tally, chat_logs>>

\* the fetch of the reference document in callGPT of the continuation variant
FetchDocumentContinuation(i) ==
  /\ inv[i].pc = "c-history"
  /\ settings.reference_file_url # NULL
  /\ \E doc \in DocFetches :
       Set(i, [inv[i] EXCEPT !.pc = IF BodyFollows(doc) THEN "c-fetched-body"
                                    ELSE "c-fetched",
                             !.call.doc = doc])
  /\ UNCHANGED <<now, settings, processed_events, user_states, tally, chat_logs>>

\* await response.text()
ReadDocumentContinuation(i) ==
  /\ inv[i].pc = "c-fetched-body"
  /\ Set(i, [inv[i] EXCEPT !.pc = "c-fetched"])
  /\ UNCHANGED <<now, settings, processed_events, user_states, tally, chat_logs>>

\* the first request of callGPT of the continuation variant: the fetch of the
\* responses request for a gpt-5 model, whose answer leaves the body to be read
\* and after whose rejection the chat-completion request is pending, and the
\* chat-completion request for any other model
CallContinuation(i) ==
  /\ \/ inv[i].pc = "c-fetched"
     \/ inv[i].pc = "c-history" /\ settings.reference_file_url = NULL
  /\ \E resp \in Responses :
       LET r == CallGPTContinuation(settings, inv[i].call.history, <<"b">>,
                                    inv[i].call.doc, resp, resp)
       IN  IF IsGPT5(settings) /\ Answered(resp)
             THEN Set(i, [inv[i] EXCEPT !.pc = "c-requested", !.call.resp = resp])
           ELSE IF FellBack(r)
             THEN Set(i, [inv[i] EXCEPT !.pc = "c-fallback", !.call.resp = resp])
           ELSE Set(i, [inv[i] EXCEPT !.pc = "continued", !.call.chat = resp,
                                      !.call.result = r])
  /\ UNCHANGED <<now, settings, processed_events, user_states, tally, chat_logs>>

\* await res.json() and the test of the answer: the call returns, or the error
\* thrown is let pass by the catch block and the chat-completion request is pending
ReadBodyContinuation(i) ==
  /\ inv[i].pc = "c-requested"
  /\ LET r == CallGPTContinuation(settings, inv[i].call.history, <<"b">>,
                                  inv[i].call.doc, inv[i].call.resp, inv[i].call.resp)
     IN  IF FellBack(r)
           THEN Set(i, [inv[i] EXCEPT !.pc = "c-fallback"])
           ELSE Set(i, [inv[i] EXCEPT !.pc = "continued", !.call.result = r])
  /\ UNCHANGED <<now, settings, processed_events, user_states, tally, chat_logs>>

\* the chat-completion request after the responses request has failed
FallBackContinuation(i) ==
  /\ inv[i].pc = "c-fallback"
  /\ \E chat \in Responses :
       Set(i, [inv[i] EXCEPT
                 !.pc = "continued", !.call.chat = chat,
                 !.call.result = CallGPTContinuation(settings, inv[i].call.history, <<"b">>,
                                                     inv[i].call.doc, inv[i].call.resp, chat)])
  /\ UNCHANGED <<now, settings, processed_events, user_states, tally, chat_logs>>

NextBackend ==
  \/ FetchDocument(1)
  \/ ReadDocument(1)
  \/ Call(1)
  \/ ReadBody(1)
  \/ QueryHistory(1)
  \/ FetchDocumentContinuation(1)
  \/ ReadDocumentContinuation(1)
  \/ CallContinuation(1)
  \/ ReadBodyContinuation(1)
  \/ FallBackContinuation(1)

SpecBackend == InitBackend /\ [][NextBackend]_vars

\* ------------------------------------------------- the keyword matcher alone
\* The handler up to the keyword test of lines 53-64, for every short configured
\* string and message text.
Strings(alphabet, maxLen) == UNION {[1..n -> alphabet] : n \in 0..maxLen}

KeywordConfigs == Strings({"a", "b", ",", FWComma, " "}, MaxConfigLen) \cup {Unset}
Texts == Strings({"a", "b", " "}, MaxTextLen)

InitMatcher ==
  /\ now = 0
  /\ settings \in {SettingsRow(cfg, 10, TRUE, "gpt", Unset, ModelO1) : cfg \in KeywordConfigs}
  /\ processed_events = {}
  /\ user_states = {}
  /\ chat_logs = <<>>
  /\ inv = [i \in Invocations |-> IdleInvocation]
  /\ tally = [e \in EventIds |-> NoTally]

\* lines 13-28 for a signed POST that carries one text message of user u1
StartMatcher(i) ==
  /\ inv[i].pc = "idle"
  /\ \E text \in Texts :
       LET request == Request("POST", <<TextEvent("e1", "u1", text)>>, ChannelSecret)
       IN  /\ Rejection(request, "row", settings) = 0
           /\ Set(i, [inv[i] EXCEPT !.pc = "loop", !.request = request, !.fetch = "row",
                                     !.settings = settings, !.parsed = TRUE,
                                     !.events = request.body])
  /\ UNCHANGED <<now, settings, processed_events, user_states, tally, chat_logs>>

\* the handler from the request to the test of line 64
NextMatcher ==
  \/ StartMatcher(1)
  \/ Loop(1)
  \/ InsertProcessedEvent(1)
  \/ SelectUserState(1)

SpecMatcher == InitMatcher /\ [][NextMatcher]_vars

\* ============================================================== properties
\* delivery k of invocation i is over: the loop went on, returned, or the handler threw
Ended(i) == inv[i].k >= 1 /\ inv[i].pc \in {"loop", "returned", "thrown"}

Delivery(i) == inv[i].d
Message(i) == UserMessage(LineEvent(i))
Keywords(i) == HandoverKeywords(inv[i].settings.handover_keywords)
KeywordHit(i) == \E n \in 1..Len(Keywords(i)) : KeywordMatches(Keywords(i)[n], Message(i))
Admitted(i) == inv[i].k >= 1 /\ Delivery(i).gate = "Admitted"
InHumanMode(i) == inv[i].userState.exists /\ inv[i].userState.is_human_mode
ElapsedMs(i) == Delivery(i).clock * MsPerMinute - GetTime(inv[i].userState.last_human_interaction)
ConfiguredTimeoutMs(i) == inv[i].settings.handover_timeout_minutes * 60 * 1000

\* C1: for every event id, at most one delivery gets past the dedup gate, however
\* the deliveries are spread over batches and overlapping invocations.
C1_AdmittedAtMostOnce == \A e \in EventIds : tally[e].admitted <= 1

\* C1 witness: two overlapping invocations hold the same event; one was admitted
\* and is still handling it, the other was turned away as a duplicate.
C1_Witness ==
  \E i, j \in Invocations :
    /\ i # j /\ inv[i].k >= 1 /\ inv[j].k >= 1
    /\ LineEvent(i).webhookEventId = LineEvent(j).webhookEventId
    /\ Delivery(i).gate = "Admitted" /\ ~Ended(i)
    /\ Delivery(j).gate = "Duplicate" /\ Delivery(j).recorded

\* C2: over all deliveries of one event id, replyMessage is called at most once and
\* an LLM backend is called at most once.
C2_OneReplyOneBackendCall ==
  \A e \in EventIds : tally[e].replies <= 1 /\ tally[e].llm <= 1

\* C2 witness: an event that was answered by the backend and replied to once, and a
\* redelivery of it that was dropped.
C2_Witness ==
  \E j \in Invocations :
    /\ Ended(j) /\ Delivery(j).gate = "Duplicate" /\ Delivery(j).recorded
    /\ tally[LineEvent(j).webhookEventId].replies = 1
    /\ tally[LineEvent(j).webhookEventId].llm = 1

FiveOutcomes ==
  {"duplicate-drop", "human-handover", "human-mode-hold", "AI-reply", "silent-drop"}

Decided(i) == inv[i].k >= 1 /\ Delivery(i).outcome \in FiveOutcomes

Inputs(i) ==
  << Delivery(i).recorded, Delivery(i).stored, Keywords(i), Message(i), Delivery(i).clock,
     inv[i].settings.handover_timeout_minutes, inv[i].settings.is_ai_enabled >>

\* C3 (as claimed): every handled text message ends in one of the five outcomes, and
\* the outcome is a function of (event id recorded, stored state, keyword list,
\* message, time, timeout, AI flag): equal inputs give equal outcomes.
C3_OutcomeIsFunctionOfInputs ==
  /\ \A i \in Invocations :
       (Ended(i) /\ Delivery(i).gate # "none") => Delivery(i).outcome \in FiveOutcomes
  /\ \A i, j \in Invocations :
       (Decided(i) /\ Decided(j) /\ Inputs(i) = Inputs(j))
         => Delivery(i).outcome = Delivery(j).outcome

\* C4: once the gate has classified a delivery as Duplicate, that delivery reads and
\* writes no user state, fetches no profile, sends no reply and no notification,
\* calls no backend, and the insert left processed_events as it was.
C4_DuplicateHasNoEffect ==
  \A i \in Invocations :
    Delivery(i).gate = "Duplicate" =>
      /\ Delivery(i).reads = 0 /\ Delivery(i).writes = 0 /\ Delivery(i).profiles = 0
      /\ Delivery(i).replies = 0 /\ Delivery(i).pushes = 0 /\ Delivery(i).llm = 0
      /\ ~Delivery(i).gateChanged

\* C4 witness: a redelivered event was dropped and its invocation answered 200.
C4_Witness ==
  \E i \in Invocations :
    /\ Ended(i) /\ Delivery(i).gate = "Duplicate" /\ Delivery(i).recorded
    /\ inv[i].pc = "returned" /\ inv[i].status = 200

\* C5 (as claimed): the gate reports Duplicate exactly when a record with the event
\* id already exists, so a first delivery is always admitted.
C5_DuplicateIffRecorded ==
  \A i \in Invocations :
    (inv[i].k >= 1 /\ Delivery(i).gate # "none")
      => (Delivery(i).gate = "Duplicate" <=> Delivery(i).recorded)

\* the upsert of the handover of invocation i was rejected by the store
UpsertRejected(i) == Delivery(i).writes = 1 /\ Delivery(i).writeFailed

\* C6 (as claimed): an admitted message that matches a handover keyword, whatever
\* the stored state and the AI flag, has written the user's row with
\* is_human_mode = true and a timestamp read while it was handled, has sent the
\* fixed acknowledgement once and has called no backend.
C6_HandoverEffects ==
  \A i \in Invocations :
    (Ended(i) /\ Admitted(i) /\ KeywordHit(i)) =>
      /\ Delivery(i).writes = 1
      /\ Delivery(i).wrote.exists /\ Delivery(i).wrote.is_human_mode
      /\ Delivery(i).clock <= Delivery(i).wrote.last_human_interaction
      /\ Delivery(i).wrote.last_human_interaction <= now
      /\ Delivery(i).replies = 1 /\ Delivery(i).replyText = AckText
      /\ Delivery(i).llm = 0

\* what is left of it: every such message has issued one upsert, sent the fixed
\* acknowledgement once and called no backend, and when the upsert reached the
\* table the row is in human mode with a timestamp read while it was handled;
\* when the upsert was rejected the row is as it was.
C6_HandoverEffectsOfLandedUpsert ==
  \A i \in Invocations :
    (Ended(i) /\ Admitted(i) /\ KeywordHit(i)) =>
      /\ Delivery(i).writes = 1
      /\ Delivery(i).replies = 1 /\ Delivery(i).replyText = AckText
      /\ Delivery(i).llm = 0
      /\ IF UpsertRejected(i)
           THEN Delivery(i).wrote = Delivery(i).replaced
           ELSE /\ Delivery(i).wrote.exists /\ Delivery(i).wrote.is_human_mode
                /\ Delivery(i).clock <= Delivery(i).wrote.last_human_interaction
                /\ Delivery(i).wrote.last_human_interaction <= now

\* a handover re-triggered by a user who was in human mode within the timeout,
\* with the AI switched off, of which the upsert reached the table
C6_LandedWitness ==
  \E i \in Invocations :
    /\ Ended(i) /\ Admitted(i) /\ KeywordHit(i)
    /\ InHumanMode(i) /\ ElapsedMs(i) < ConfiguredTimeoutMs(i)
    /\ ~inv[i].settings.is_ai_enabled
    /\ Delivery(i).replies = 1 /\ ~UpsertRejected(i)

\* an acknowledged handover of a user without a row of which the upsert was
\* rejected: the user still has no row
C6_RejectedWitness ==
  \E i \in Invocations :
    /\ Ended(i) /\ Admitted(i) /\ KeywordHit(i) /\ UpsertRejected(i)
    /\ Delivery(i).replies = 1 /\ ~Delivery(i).replyFailed
    /\ ~Delivery(i).wrote.exists

\* C7: an admitted message without a keyword hit, from a user read in human mode
\* less than the configured timeout after the last handover, gets no reply, no
\* backend call, no agent notification and no write of the user's row.
C7_HumanModeHold ==
  \A i \in Invocations :
    ( Ended(i) /\ Admitted(i) /\ ~KeywordHit(i)
      /\ InHumanMode(i) /\ ElapsedMs(i) < ConfiguredTimeoutMs(i) ) =>
      /\ Delivery(i).replies = 0 /\ Delivery(i).llm = 0
      /\ Delivery(i).pushes = 0 /\ Delivery(i).writes = 0

\* C7 witness: such a message was held while the AI was enabled.
C7_Witness ==
  \E i \in Invocations :
    /\ Ended(i) /\ Admitted(i) /\ ~KeywordHit(i)
    /\ InHumanMode(i) /\ ElapsedMs(i) < ConfiguredTimeoutMs(i)
    /\ inv[i].settings.is_ai_enabled
    /\ Delivery(i).outcome = "human-mode-hold"

\* C8 (as claimed): an admitted message without a keyword hit, from a user read in
\* human mode whose configured timeout has elapsed, with the AI enabled, clears the
\* stored human mode and receives exactly one reply.
C8_TimedOutMessageIsAnswered ==
  \A i \in Invocations :
    ( Ended(i) /\ Admitted(i) /\ ~KeywordHit(i)
      /\ InHumanMode(i) /\ ElapsedMs(i) >= ConfiguredTimeoutMs(i)
      /\ inv[i].settings.is_ai_enabled ) =>
      /\ Delivery(i).writes = 1 /\ ~Delivery(i).wrote.is_human_mode
      /\ Delivery(i).replies = 1

\* C9 (as claimed): every admitted message that takes the AI path receives exactly
\* one reply, whatever the backend answered.
C9_EligibleMessageGetsOneReply ==
  \A i \in Invocations :
    (Ended(i) /\ Admitted(i) /\ Delivery(i).outcome = "AI-reply") => Delivery(i).replies = 1

\* C10 (as claimed): when the backend call fails, the handler sends exactly one reply
\* made of the error indicator and the failure message, does not throw, and goes on
\* with the batch.
C10_BackendFailureIsReported ==
  \A i \in Invocations :
    (Ended(i) /\ Delivery(i).llmFailed) =>
      /\ Delivery(i).replies = 1
      /\ Delivery(i).replyText = <<AiErrorPrefix, Delivery(i).failure>>
      /\ inv[i].pc # "thrown"

\* C11: an admitted message without a keyword hit, from a user read without a row or
\* with is_human_mode = false, while the AI is switched off, gets no reply, no backend
\* call, no agent notification and no write of the user's row.
C11_AiDisabledSilentDrop ==
  \A i \in Invocations :
    ( Ended(i) /\ Admitted(i) /\ ~KeywordHit(i) /\ ~InHumanMode(i)
      /\ ~inv[i].settings.is_ai_enabled ) =>
      /\ Delivery(i).replies = 0 /\ Delivery(i).llm = 0
      /\ Delivery(i).pushes = 0 /\ Delivery(i).writes = 0

\* C11 witness: such a message was read, dropped, and its request answered 200 with
\* the user still unknown to user_states.
C11_Witness ==
  \E i \in Invocations :
    /\ Ended(i) /\ Admitted(i) /\ ~KeywordHit(i) /\ ~InHumanMode(i)
    /\ ~inv[i].settings.is_ai_enabled
    /\ Delivery(i).reads = 1 /\ Delivery(i).outcome = "silent-drop"
    /\ inv[i].pc = "returned" /\ inv[i].status = 200
    /\ ~Single(user_states, LineEvent(i).userId).exists

\* C12 (as claimed): an admitted message on the plain AI path (no keyword hit, user
\* without a row or not in human mode, AI enabled) has created exactly one
\* processed-event record, made exactly one reply call and no write of the user's row.
C12_PlainAiPathEffects ==
  \A i \in Invocations :
    ( Ended(i) /\ Admitted(i) /\ ~KeywordHit(i) /\ ~InHumanMode(i)
      /\ inv[i].settings.is_ai_enabled ) =>
      /\ Delivery(i).gateChanged
      /\ tally[LineEvent(i).webhookEventId].admitted = 1
      /\ Delivery(i).replies = 1
      /\ Delivery(i).writes = 0

\* the handling of the event has reached the keyword test of line 64
Matched(i) == inv[i].k = 1 /\ Delivery(i).reads = 1

\* k occurs in m at position p
OccursAt(k, m, p) ==
  /\ p + Len(k) - 1 <= Len(m)
  /\ \A q \in 1..Len(k) : m[p + q - 1] = k[q]

\* C13: for every configured string and every message, a handover is triggered
\* exactly when some keyword of the list matches, where a keyword of length 1
\* matches iff the message equals it and a longer keyword matches iff it occurs in
\* the message.
C13_KeywordRule ==
  \A i \in Invocations :
    Matched(i) =>
      ( Delivery(i).outcome = "human-handover"
        <=> \E n \in 1..Len(Keywords(i)) :
              LET k == Keywords(i)[n]
              IN  IF Len(k) = 1 THEN Message(i) = k
                  ELSE \E p \in 1..Len(Message(i)) : OccursAt(k, Message(i), p) )

\* C13 witness: a one-character keyword occurs inside a longer message and no
\* handover was triggered.
C13_Witness ==
  \E i \in Invocations :
    /\ Matched(i) /\ Delivery(i).outcome # "human-handover"
    /\ Len(Message(i)) > 1
    /\ \E n \in 1..Len(Keywords(i)) :
         /\ Len(Keywords(i)[n]) = 1
         /\ \E p \in 1..Len(Message(i)) : OccursAt(Keywords(i)[n], Message(i), p)

Delimiters == {",", FWComma, " "}
OnlyDelimiters(cfg) == cfg = Unset \/ \A n \in 1..Len(cfg) : cfg[n] \in Delimiters

\* C14: every entry of the keyword list derived from the configured string is
\* non-empty, carries no comma and no leading or trailing blank; a configured string
\* that is unset, empty or made of commas and blanks only triggers no handover.
C14_NoEmptyKeyword ==
  LET ks == HandoverKeywords(settings.handover_keywords)
  IN  /\ \A n \in 1..Len(ks) :
           /\ Len(ks[n]) > 0
           /\ ks[n][1] # " " /\ ks[n][Len(ks[n])] # " "
           /\ \A q \in 1..Len(ks[n]) : ks[n][q] \notin {",", FWComma}
      /\ OnlyDelimiters(settings.handover_keywords) =>
           \A i \in Invocations : Matched(i) => Delivery(i).outcome # "human-handover"

\* C14 witness: the configured string is a full-width comma, a comma and a blank,
\* and a message went through the matcher.
C14_Witness ==
  \E i \in Invocations :
    /\ Matched(i) /\ Delivery(i).outcome = "AI-reply"
    /\ inv[i].settings.handover_keywords = <<FWComma, ",", " ">>

\* the configured roster as a list of ids, empty when none is configured
Roster(i) ==
  LET ids == AgentIds(inv[i].settings.agent_user_ids)
  IN  IF ids = Unset THEN <<>> ELSE ids

\* C15 (as claimed): a handover has attempted one notification for every id of the
\* roster, in roster order, whatever the deliveries did; its write of human mode
\* stands and the request has not failed.
C15_AgentFanOut ==
  \A i \in Invocations :
    (Ended(i) /\ Admitted(i) /\ KeywordHit(i)) =>
      /\ Delivery(i).notified = Roster(i)
      /\ Delivery(i).writes = 1 /\ Delivery(i).wrote.is_human_mode
      /\ inv[i].pc # "thrown"

HasNickname(row) == row.exists /\ row.nickname \notin {NULL, ""}

\* the nickname a handover leaves when the profile fetch failed and `row` is the
\* row that was there before
FallbackNickname(row) == IF HasNickname(row) THEN row.nickname ELSE Placeholder

ProfileFailedHandover(i) ==
  Ended(i) /\ Admitted(i) /\ KeywordHit(i) /\ Delivery(i).profileFailed

\* C16 (as claimed): a handover whose profile fetch failed has persisted human mode
\* and sent the acknowledgement, and the nickname it wrote is the nickname of the row
\* it replaced when that row had one, the placeholder only when it had none.
C16_StoredNicknameKept ==
  \A i \in Invocations :
    ProfileFailedHandover(i) =>
      /\ Delivery(i).writes = 1 /\ Delivery(i).wrote.is_human_mode
      /\ Delivery(i).replies = 1 /\ Delivery(i).replyText = AckText
      /\ Delivery(i).wrote.nickname = FallbackNickname(Delivery(i).replaced)

\* what is left of it: a handover whose profile fetch failed has issued the upsert
\* and sent the acknowledgement; when the upsert reached the table the row is in
\* human mode with the nickname of the row as the handling read it at line 50 (a
\* row written by an overlapping invocation between that read and the upsert is
\* overwritten); when the upsert was rejected nothing was persisted.
C16_ReadNicknameKept ==
  \A i \in Invocations :
    ProfileFailedHandover(i) =>
      /\ Delivery(i).writes = 1
      /\ Delivery(i).replies = 1 /\ Delivery(i).replyText = AckText
      /\ IF UpsertRejected(i)
           THEN Delivery(i).wrote = Delivery(i).replaced
           ELSE /\ Delivery(i).wrote.is_human_mode
                /\ Delivery(i).wrote.nickname = FallbackNickname(inv[i].userState)

\* the profile fetch failed for a user whose row held a fetched display name, and
\* the handover wrote that name back
C16_LandedWitness ==
  \E i \in Invocations :
    /\ ProfileFailedHandover(i) /\ ~UpsertRejected(i)
    /\ HasNickname(inv[i].userState) /\ inv[i].userState.nickname \in DisplayNames
    /\ Delivery(i).wrote.nickname = inv[i].userState.nickname
    /\ Delivery(i).wrote.is_human_mode

\* the profile fetch failed, the upsert was rejected and the acknowledgement was
\* delivered: the user was told of a handover and has no row in human mode
C16_RejectedWitness ==
  \E i \in Invocations :
    /\ ProfileFailedHandover(i) /\ UpsertRejected(i)
    /\ Delivery(i).replies = 1 /\ ~Delivery(i).replyFailed
    /\ ~Delivery(i).wrote.is_human_mode

Started(i) == inv[i].pc # "idle"
IsPost(i) == inv[i].request.method = "POST"
SignatureValid(i) ==
  inv[i].request.signature = Hmac(inv[i].request.body, settings.line_channel_secret)
TurnedAway(i) == inv[i].pc = "returned" /\ inv[i].status \in {405, 500, 401}

\* C17: a request that is not a POST is answered 405, a POST whose settings query
\* failed 500, a POST with settings and an invalid signature 401; a request answered
\* so has parsed nothing and handled no event, and as long as every request was
\* turned away the tables are as they were and nothing was sent or called.
C17_TurnedAwayWithoutEffect ==
  /\ \A i \in Invocations :
       Started(i) =>
         /\ ~IsPost(i) => TurnedAway(i) /\ inv[i].status = 405
         /\ (IsPost(i) /\ inv[i].fetch = "error") => TurnedAway(i) /\ inv[i].status = 500
         /\ (IsPost(i) /\ inv[i].fetch = "row" /\ ~SignatureValid(i))
              => TurnedAway(i) /\ inv[i].status = 401
         /\ TurnedAway(i) =>
              /\ ~inv[i].parsed /\ inv[i].events = <<>> /\ inv[i].k = 0
              /\ Delivery(i) = NoEffects
  /\ (\A i \in Invocations : Started(i) => TurnedAway(i)) =>
       /\ processed_events = {}
       /\ user_states = {}
       /\ \A e \in EventIds : tally[e] = NoTally

\* C17 witness: one request was answered 500 and another 401, both carrying text
\* events, and no table has a row.
C17_Witness ==
  \E i, j \in Invocations :
    /\ TurnedAway(i) /\ inv[i].status = 500 /\ inv[i].request.body = <<EvHelp, EvPlain>>
    /\ TurnedAway(j) /\ inv[j].status = 401 /\ inv[j].request.body = <<EvCall>>
    /\ processed_events = {}

\* C18 (as claimed): every POST whose signature is invalid is answered 401 and its
\* body is never parsed.
C18_InvalidSignatureIs401 ==
  \A i \in Invocations :
    (Started(i) /\ IsPost(i) /\ ~SignatureValid(i)) =>
      /\ inv[i].pc = "returned" /\ inv[i].status = 401
      /\ ~inv[i].parsed /\ inv[i].k = 0

\* C18 (amended): every POST whose signature is invalid is answered 401 once the
\* settings row, which holds the secret, was fetched, and 500 when that query
\* failed; in both cases the body is never parsed, and a parsed body was signed
\* with the channel secret.
C18_SignatureCheckedAfterSettings ==
  \A i \in Invocations :
    /\ (Started(i) /\ IsPost(i) /\ ~SignatureValid(i)) =>
         /\ inv[i].pc = "returned"
         /\ inv[i].status = IF inv[i].fetch = "row" THEN 401 ELSE 500
         /\ ~inv[i].parsed /\ inv[i].k = 0
    /\ (inv[i].parsed \/ inv[i].k >= 1) => (IsPost(i) /\ SignatureValid(i))

\* C18 witness: a forged POST was answered 401 while the same body, signed by the
\* platform, is being handled by another invocation.
C18_Witness ==
  \E i, j \in Invocations :
    /\ IsPost(i) /\ ~SignatureValid(i) /\ inv[i].status = 401 /\ ~inv[i].parsed
    /\ inv[j].parsed /\ inv[j].k >= 1 /\ inv[j].request.body = inv[i].request.body

\* an event the handler has nothing to do with
IsSkipped(ev) ==
  \/ ev.type # "message" \/ ev.mtype # "text"
  \/ ev.webhookEventId = NULL
  \/ ev.text = Unset
  \/ \A n \in 1..Len(ev.text) : ev.text[n] = " "

\* C19: an event that is not a text message, or whose text is blank, or that has no
\* event id, is passed over: no insert into processed_events, no read or write of
\* user_states, no profile fetch, no reply, no notification, no backend call.
C19_SkippedEventHasNoEffect ==
  \A i \in Invocations :
    (inv[i].k >= 1 /\ IsSkipped(LineEvent(i))) =>
      /\ Delivery(i) = [NoEffects EXCEPT !.outcome = "ignored"]
      /\ inv[i].pc \in {"loop", "returned"}

\* C19 witness: a batch of an image, a blank text and a text without event id was
\* answered 200 and left processed_events empty.
C19_Witness ==
  \E i \in Invocations :
    /\ inv[i].pc = "returned" /\ inv[i].status = 200 /\ inv[i].k = 3
    /\ inv[i].events = <<EvImage, EvBlank, EvNoId>>
    /\ processed_events = {}

\* C20 (as claimed): a backend failure or a failed delivery of a reply or of a
\* handover acknowledgement leaves the invocation running: it does not throw, and
\* when it has returned it has gone through the whole batch and answered 200.
C20_FailureDoesNotAbortBatch ==
  \A i \in Invocations :
    (inv[i].k >= 1 /\ (Delivery(i).llmFailed \/ Delivery(i).replyFailed)) =>
      /\ inv[i].pc # "thrown"
      /\ inv[i].pc = "returned" => (inv[i].status = 200 /\ inv[i].k = Len(inv[i].events))

Apis(i) ==
  [n \in 1..Len(inv[i].call.result.calls) |-> inv[i].call.result.calls[n].api]
TransportFailed(resp) == resp.transport = "throw"
ApiErrorReported(resp) == resp.transport = "ok" /\ (~resp.ok \/ resp.error # NULL)

\* C21 (as claimed): in the continuation variant of callGPT with a gpt-5 model, a
\* transport failure of the responses call is followed by the chat-completion call,
\* and an error reported by the backend is thrown without a chat-completion call.
C21_ApiErrorNotRetried ==
  \A i \in Invocations :
    (inv[i].pc = "continued" /\ IsGPT5(inv[i].settings)) =>
      /\ TransportFailed(inv[i].call.resp) => Apis(i) = <<"responses", "chat.completions">>
      /\ ApiErrorReported(inv[i].call.resp) =>
           (Apis(i) = <<"responses">> /\ inv[i].call.result.threw)

DocumentFailed(i) ==
  /\ inv[i].pc = "called" /\ inv[i].settings.reference_file_url # NULL
  /\ (inv[i].call.doc.transport = "throw" \/ ~inv[i].call.doc.ok)

\* C22: with a reference URL configured and a fetch of it that throws or answers
\* with a failure status, callGPT and callGemini make their one backend request,
\* without document content, and return or throw what the answer of the backend
\* alone decides.
C22_DocumentFailureAbsorbed ==
  \A i \in Invocations :
    DocumentFailed(i) =>
      LET c == inv[i].call
      IN  /\ Len(c.result.calls) = 1
          /\ c.result.calls[1].document \in {<<>>, Unset}
          /\ c.result.threw <=> (TransportFailed(c.resp) \/ ApiErrorReported(c.resp))
          /\ c.result.threw => c.result.message \in {c.resp.message, c.resp.error,
                                                       c.resp.statusText, "Gemini API Error"}
          /\ ~c.result.threw => c.result.text = OrEmpty(c.resp.text)

\* C22 witness: the document answered 404 and callGPT returned the backend's text.
C22_Witness ==
  \E i \in Invocations :
    /\ DocumentFailed(i) /\ inv[i].call.doc.transport = "ok"
    /\ inv[i].settings.active_ai = "gpt"
    /\ ~inv[i].call.result.threw /\ inv[i].call.result.text = <<"<answer>">>

RowsOf(u) == {r \in user_states : r.line_user_id = u}

\* C23: in every reachable state, a row of user_states whose is_human_mode is true
\* has a last_human_interaction that is not null.
C23_HumanModeHasTimestamp ==
  \A r \in user_states : r.is_human_mode => r.last_human_interaction # NullTime

\* C23 witness: a handover has written its row and the user is in human mode.
C23_Witness ==
  \E i \in Invocations :
    /\ inv[i].k >= 1 /\ Delivery(i).outcome = "human-handover" /\ Delivery(i).writes = 1
    /\ \E r \in RowsOf(LineEvent(i).userId) : r.is_human_mode

\* C24: user_states holds at most one row per user id, also when handovers of the
\* same user overlap, and no step removes the row of a user that has one.
C24_OneRowPerUserKept ==
  /\ [](\A u \in Users : Cardinality(RowsOf(u)) <= 1)
  /\ [][\A u \in Users : RowsOf(u) # {} => RowsOf(u)' # {}]_vars

\* C24 witness: two overlapping invocations have both upserted the row of the same
\* user, neither has acknowledged yet, and the table holds one row for that user.
C24_Witness ==
  \E i, j \in Invocations :
    /\ i # j /\ inv[i].pc = "ack" /\ inv[j].pc = "ack"
    /\ LineEvent(i).userId = LineEvent(j).userId
    /\ Delivery(i).writes = 1 /\ Delivery(j).writes = 1
    /\ Cardinality(RowsOf(LineEvent(i).userId)) = 1

KeywordLess(i) == Ended(i) /\ Admitted(i) /\ ~KeywordHit(i)

\* C25: an admitted message without keyword from a user in human mode is held
\* exactly when the time since last_human_interaction is strictly less than
\* handover_timeout_minutes * 60 seconds, for every configured value, 0 included:
\* with a timeout of 0 no message is held.
C25_HeldIffWithinConfiguredTimeout ==
  \A i \in Invocations :
    KeywordLess(i) /\ InHumanMode(i) =>
      (Delivery(i).outcome = "human-mode-hold" <=> ElapsedMs(i) < ConfiguredTimeoutMs(i))

\* the same for the configured values other than 0
C25_HeldIffWithinNonZeroTimeout ==
  \A i \in Invocations :
    KeywordLess(i) /\ InHumanMode(i) /\ ConfiguredTimeoutMs(i) # 0 =>
      (Delivery(i).outcome = "human-mode-hold" <=> ElapsedMs(i) < ConfiguredTimeoutMs(i))

HandoverWrite(i) ==
  inv[i].k >= 1 /\ Delivery(i).outcome = "human-handover" /\ Delivery(i).writes = 1
ClearingWrite(i) ==
  inv[i].k >= 1 /\ Delivery(i).outcome # "human-handover" /\ Delivery(i).writes = 1

\* C26 as claimed: over any interleaving, no step makes the stored
\* last_human_interaction of a user smaller than it was.
C26_TimestampNeverDecreases ==
  [][\A u \in Users : \A r \in RowsOf(u) : \A q \in RowsOf(u)' :
       q.last_human_interaction >= r.last_human_interaction]_vars

\* C26: the upsert of a handover that reaches the table stores a
\* last_human_interaction that is not earlier than the time at which the handling
\* read the user's row nor than the timestamp of the row it read; an upsert that
\* is rejected leaves the row as it was; and the timeout clearing, landed or
\* rejected, leaves the stored timestamp as it was.
C26_TimestampNotBeforeRowRead ==
  \A i \in Invocations :
    /\ HandoverWrite(i) /\ ~Delivery(i).writeFailed =>
         /\ Delivery(i).wrote.last_human_interaction >= Delivery(i).clock
         /\ Delivery(i).wrote.last_human_interaction >= inv[i].userState.last_human_interaction
    /\ HandoverWrite(i) /\ Delivery(i).writeFailed =>
         Delivery(i).wrote = Delivery(i).replaced
    /\ ClearingWrite(i) /\ Delivery(i).replaced.exists =>
         Delivery(i).wrote.last_human_interaction = Delivery(i).replaced.last_human_interaction

\* C26 witness: a handover has replaced a row that an overlapping handover had
\* stamped later, and a timeout clearing has gone over a stamped row.
C26_Witness ==
  /\ \E i \in Invocations :
       /\ HandoverWrite(i) /\ ~Delivery(i).writeFailed /\ Delivery(i).replaced.exists
       /\ Delivery(i).replaced.last_human_interaction > Delivery(i).wrote.last_human_interaction
  /\ \E j \in Invocations :
       /\ ClearingWrite(j) /\ ~Delivery(j).writeFailed /\ Delivery(j).replaced.exists
       /\ Delivery(j).replaced.last_human_interaction # NullTime

\* C27 as claimed: a step that sets is_human_mode to false is taken only when the
\* timeout has elapsed since the last_human_interaction that the store holds at
\* that moment, so that a handover written and acknowledged by an overlapping
\* invocation is not cleared before its timeout.
C27_ClearedOnlyAfterStoredTimeout ==
  [][\A i \in Invocations :
       inv[i].pc = "update" /\ inv[i]' # inv[i] =>
         \A r \in RowsOf(LineEvent(i).userId) :
           r.is_human_mode =>
             now * MsPerMinute - GetTime(r.last_human_interaction) >= ConfiguredTimeoutMs(i)]_vars

\* C27: is_human_mode is set to false only by a handling that read the user in
\* human mode with the timeout elapsed since the last_human_interaction it read.
C27_ClearedOnlyAfterTimeoutRead ==
  \A i \in Invocations :
    ClearingWrite(i) => InHumanMode(i) /\ ElapsedMs(i) >= ConfiguredTimeoutMs(i)

\* C27 witness: a clearing has gone over a row that an overlapping handover had
\* stamped after the clearing invocation read it.
C27_Witness ==
  \E i \in Invocations :
    /\ ClearingWrite(i) /\ InHumanMode(i) /\ Delivery(i).replaced.exists
    /\ Delivery(i).replaced.last_human_interaction > inv[i].userState.last_human_interaction

\* the events of the batch of invocation i that were handled before the current
\* one and ended in a handover of the current event's user
EarlierHandovers(i) ==
  { j \in 1..Len(inv[i].log) :
      /\ inv[i].log[j].outcome = "human-handover"
      /\ inv[i].events[j].userId = LineEvent(i).userId }

\* the last earlier event of the batch that wrote the row of the current user
LastWriter(i) ==
  LET writers == { j \in 1..Len(inv[i].log) :
                     /\ inv[i].log[j].wrote.exists
                     /\ inv[i].events[j].userId = LineEvent(i).userId }
  IN  CHOOSE j \in writers : \A m \in writers : m <= j

\* invocation j has written the row of user u
HasWritten(j, u) ==
  \/ inv[j].k >= 1 /\ LineEvent(j).userId = u /\ Delivery(j).writes >= 1
  \/ \E m \in 1..Len(inv[j].log) : inv[j].events[m].userId = u /\ inv[j].log[m].wrote.exists

LaterKeywordLess(i) == inv[i].k >= 2 /\ KeywordLess(i) /\ EarlierHandovers(i) # {}

\* C28 (as claimed): when an earlier event of the batch triggered a handover for a
\* user, a later message of that user without keyword in the same batch, handled
\* before the configured timeout has run since the timestamp of that handover
\* (line 73), is held silently.
C28_LaterEventOfBatchHeld ==
  \A i \in Invocations :
    LaterKeywordLess(i) =>
      \A j \in EarlierHandovers(i) :
        Delivery(i).clock * MsPerMinute - GetTime(inv[i].log[j].stamp)
            < ConfiguredTimeoutMs(i)
          => Delivery(i).outcome = "human-mode-hold"

\* every write of the user's row by an earlier event of the batch reached the table
EarlierWritesLanded(i) ==
  \A j \in 1..Len(inv[i].log) :
    inv[i].events[j].userId = LineEvent(i).userId => ~inv[i].log[j].writeFailed

\* what is left of it: the events of a batch are handled one after another, each
\* finished before the next starts, and each reads the user's row once, afresh:
\* after a handover earlier in the batch of which the upsert reached the table a
\* later message of that user without keyword finds a row; when no other
\* invocation has written that user's row it finds the row the batch wrote last;
\* and when it reads human mode within the timeout it is held without reply,
\* notification, backend call or write.
C28_LaterEventReadsAfresh ==
  \A i \in Invocations :
    /\ inv[i].k >= 1 => Len(inv[i].log) = inv[i].k - 1
    /\ LaterKeywordLess(i) =>
         /\ Delivery(i).reads = 1
         /\ EarlierWritesLanded(i) => inv[i].userState.exists
         /\ ( /\ EarlierWritesLanded(i)
              /\ \A j \in Invocations \ {i} : ~HasWritten(j, LineEvent(i).userId) ) =>
              inv[i].userState = inv[i].log[LastWriter(i)].wrote
         /\ InHumanMode(i) /\ ElapsedMs(i) < TimeoutMs(inv[i].settings) =>
              /\ Delivery(i).outcome = "human-mode-hold"
              /\ Delivery(i).replies = 0 /\ Delivery(i).pushes = 0
              /\ Delivery(i).llm = 0 /\ Delivery(i).writes = 0

\* the second event of a batch, a message without keyword of the user whom the
\* first event handed over, read the row the handover wrote and was held
C28_LandedWitness ==
  \E i \in Invocations :
    /\ LaterKeywordLess(i) /\ EarlierWritesLanded(i)
    /\ inv[i].userState = inv[i].log[LastWriter(i)].wrote
    /\ Delivery(i).outcome = "human-mode-hold" /\ Delivery(i).replies = 0

\* the first event of a batch was a handover of which the upsert was rejected,
\* and the second event, a message of the same user without keyword
\* handled in the same minute, read no row and went to the backend
C28_RejectedWitness ==
  \E i \in Invocations :
    /\ LaterKeywordLess(i) /\ ~inv[i].userState.exists
    /\ \E j \in EarlierHandovers(i) :
         /\ inv[i].log[j].writeFailed /\ inv[i].log[j].stamp = Delivery(i).clock
    /\ Delivery(i).llm = 1

TimedOutAiDisabled(i) ==
  /\ KeywordLess(i) /\ InHumanMode(i) /\ ~inv[i].settings.is_ai_enabled
  /\ ElapsedMs(i) >= ConfiguredTimeoutMs(i)

ClearedAndDropped(i) ==
  /\ Delivery(i).writes = 1 /\ Delivery(i).wrote.exists /\ ~Delivery(i).wrote.is_human_mode
  /\ Delivery(i).outcome = "silent-drop"
  /\ Delivery(i).replies = 0 /\ Delivery(i).pushes = 0 /\ Delivery(i).llm = 0

\* C29: an admitted message without keyword from a user whose human mode has timed
\* out, with the AI flag off, has the stored is_human_mode set to false and is
\* dropped silently: no reply and no backend call.
C29_TimedOutAiDisabledCleared ==
  \A i \in Invocations : TimedOutAiDisabled(i) => ClearedAndDropped(i)

\* the same for the configured timeouts other than 0
C29_NonZeroTimedOutAiDisabledCleared ==
  \A i \in Invocations :
    TimedOutAiDisabled(i) /\ ConfiguredTimeoutMs(i) # 0 => ClearedAndDropped(i)

\* keyword k matches message m under the length rule
MatchesByRule(k, m) ==
  IF Len(k) = 1 THEN m = k ELSE \E p \in 1..Len(m) : OccursAt(k, m, p)

\* the keyword named in the notification sent to the agents
ReportedKeyword(i) == Delivery(i).notice[2]

\* C30: the keyword named in the agent notification is the first keyword of the
\* list, in list order, that matches the message under the length rule; a
\* matching keyword further down the list is never named in its place.
C30_FirstMatchingKeywordReported ==
  \A i \in Invocations :
    inv[i].k >= 1 /\ Delivery(i).pushes >= 1 =>
      \E n \in 1..Len(Keywords(i)) :
        /\ ReportedKeyword(i) = Keywords(i)[n]
        /\ MatchesByRule(Keywords(i)[n], Message(i))
        /\ \A m \in 1..(n - 1) : ~MatchesByRule(Keywords(i)[m], Message(i))

\* C30 witness: two keywords of the list match the message and the notification
\* sent names the one that comes first in the list.
C30_Witness ==
  \E i \in Invocations :
    /\ inv[i].k >= 1 /\ Delivery(i).pushes >= 1
    /\ \E n, m \in 1..Len(Keywords(i)) :
         /\ n < m
         /\ MatchesByRule(Keywords(i)[n], Message(i))
         /\ MatchesByRule(Keywords(i)[m], Message(i))
         /\ Keywords(i)[m] # Keywords(i)[n]
         /\ ReportedKeyword(i) = Keywords(i)[n]

\* the handling of the current event of invocation i has had an effect other than
\* the insert into processed_events
HasActed(i) ==
  \/ Delivery(i).reads > 0 \/ Delivery(i).writes > 0 \/ Delivery(i).profiles > 0
  \/ Delivery(i).replies > 0 \/ Delivery(i).pushes > 0 \/ Delivery(i).llm > 0

SameEvent(i, j) ==
  /\ inv[i].k >= 1 /\ inv[j].k >= 1
  /\ LineEvent(i).webhookEventId = LineEvent(j).webhookEventId

\* C35: whenever the handling of an event has read or written the user's row,
\* fetched the profile, replied, notified an agent or called a backend, the event
\* was admitted and its id is in processed_events; hence of two deliveries of one
\* event at most one is admitted, and the delivery that was not has no effect,
\* also when the handling of the admitted one stopped part-way.
C35_RecordedBeforeAnyEffect ==
  \A i \in Invocations :
    /\ inv[i].k >= 1 /\ HasActed(i) =>
         Admitted(i) /\ LineEvent(i).webhookEventId \in processed_events
    /\ \A j \in Invocations \ {i} :
         SameEvent(i, j) /\ Admitted(i) => ~Admitted(j) /\ ~HasActed(j)

\* C35 witness: the handling of an admitted event stopped part-way, on a reply
\* that was rejected, and a redelivery of the event was dropped at the gate.
C35_Witness ==
  \E i, j \in Invocations :
    /\ i # j /\ SameEvent(i, j)
    /\ Admitted(i) /\ inv[i].pc = "thrown" /\ Delivery(i).writes = 1
    /\ Ended(j) /\ Delivery(j).gate = "Duplicate" /\ ~HasActed(j)

\* C37: the step that reverts a timed-out user changes only is_human_mode of that
\* user's row: nickname and last_human_interaction keep their values, the user has
\* as many rows as before, and the rows of every other user are as they were.  The
\* flag is false after an update that reached the table, and as it was after an
\* update that was rejected.
C37_ReversionChangesOnlyTheFlag ==
  [][\A i \in Invocations :
       inv[i].pc = "update" /\ inv[i]' # inv[i] =>
         LET u == LineEvent(i).userId
         IN  /\ \A v \in Users \ {u} : RowsOf(v)' = RowsOf(v)
             /\ Cardinality(RowsOf(u)') = Cardinality(RowsOf(u))
             /\ \A r \in RowsOf(u) :
                  \E q \in RowsOf(u)' :
                    /\ q.nickname = r.nickname
                    /\ q.last_human_interaction = r.last_human_interaction
                    /\ q.is_human_mode = (inv[i]'.d.writeFailed /\ r.is_human_mode)]_vars

\* C37 witness: a timed-out user has been reverted, the row keeps the nickname and
\* the timestamp it had, and another user's row is still in human mode.
C37_Witness ==
  \E i \in Invocations :
    /\ ClearingWrite(i) /\ ~Delivery(i).writeFailed
    /\ Delivery(i).replaced.exists /\ Delivery(i).replaced.is_human_mode
    /\ ~Delivery(i).wrote.is_human_mode
    /\ Delivery(i).wrote.nickname = Delivery(i).replaced.nickname
    /\ Delivery(i).wrote.last_human_interaction = Delivery(i).replaced.last_human_interaction
    /\ \E v \in Users \ {LineEvent(i).userId} : \E r \in RowsOf(v) : r.is_human_mode

\* in a handover the upsert is issued before the acknowledgement is sent, and
\* the acknowledgement is delivered before any agent is notified
HandoverOrder ==
  \A i \in Invocations :
    inv[i].k >= 1 /\ Delivery(i).outcome = "human-handover" =>
      /\ Delivery(i).replies >= 1 => Delivery(i).writes = 1
      /\ Delivery(i).pushes >= 1 => Delivery(i).replies = 1 /\ ~Delivery(i).replyFailed

\* C36: in a handover the state write precedes the acknowledgement and the
\* acknowledgement precedes every agent notification, and at the step that sends
\* the acknowledgement the user's stored row has is_human_mode = true, also when
\* the write reported an error.
C36_AckOnlyInStoredHumanMode ==
  /\ []HandoverOrder
  /\ [][\A i \in Invocations :
         inv[i].pc = "ack" /\ inv[i]' # inv[i] =>
           \E r \in RowsOf(LineEvent(i).userId) : r.is_human_mode]_vars

\* the same for the acknowledgements of which the write reported no error; an
\* overlapping invocation that reverts the user between the upsert and the
\* acknowledgement refutes it as well
C36_AckAfterWriteInStoredHumanMode ==
  [][\A i \in Invocations :
       inv[i].pc = "ack" /\ ~Delivery(i).writeFailed /\ inv[i]' # inv[i] =>
         \E r \in RowsOf(LineEvent(i).userId) : r.is_human_mode]_vars

\* the chat-completion requests that the call of invocation i made
ChatCompletionRequests(i) ==
  { inv[i].call.result.calls[n] : n \in {m \in 1..Len(inv[i].call.result.calls) :
                                          inv[i].call.result.calls[m].api = "chat.completions"} }

LengthCaps == {"max_tokens", "max_completion_tokens"}

\* the parameter shape of one chat-completion request for the model of s
ShapedForModel(s, request) ==
  IF IsReasoningModel(s)
    THEN request.params \cap (LengthCaps \cup {"temperature"}) = {"max_completion_tokens"}
    ELSE request.params \cap (LengthCaps \cup {"temperature"}) = {"max_tokens", "temperature"}

\* C33: every chat-completion request built by callGPT carries exactly one of
\* max_tokens and max_completion_tokens: max_completion_tokens and no temperature
\* when the model id starts with 'o1' or 'o3', max_tokens and temperature for
\* every other model id.
C33_ParameterShapePerModel ==
  \A i \in Invocations :
    inv[i].pc \in {"called", "continued"} /\ inv[i].settings.active_ai = "gpt" =>
      \A request \in ChatCompletionRequests(i) : ShapedForModel(inv[i].settings, request)

\* the same for callGPT of lines 114-150 alone
C33_ParameterShapeOfFinalCallGPT ==
  \A i \in Invocations :
    inv[i].pc = "called" /\ inv[i].settings.active_ai = "gpt" =>
      \A request \in ChatCompletionRequests(i) : ShapedForModel(inv[i].settings, request)

\* the rows of chat_logs that carry event id e
LoggedEvents(e) == {n \in 1..Len(chat_logs) : chat_logs[n].webhook_event_id = e}

\* the deliveries of event id e that the lookup let pass
AdmittedDeliveries(e) ==
  {i \in Invocations : /\ inv[i].k > 0
                       /\ LineEvent(i).webhookEventId = e
                       /\ inv[i].d.gate = "Admitted"}

\* C34: in the handler that deduplicates on chat_logs a delivery is admitted
\* exactly when its lookup found no row with the event id, and every admitted
\* delivery adds a row of its own: the rows with an event id are as many as the
\* admitted deliveries that reached the insert, so that two overlapping
\* deliveries of one event id can both be admitted.
C34_AdmittedByLookupAlone ==
  /\ \A i \in Invocations :
       inv[i].d.gate \in {"Admitted", "Duplicate"} =>
         (inv[i].d.gate = "Admitted" <=> ~inv[i].d.recorded)
  /\ \A e \in EventIds :
       Cardinality(LoggedEvents(e))
         = Cardinality({i \in AdmittedDeliveries(e) : inv[i].d.inserted > 0})

\* two overlapping deliveries of event e1 were both admitted, both logged the
\* message and both called the backend
C34_Witness ==
  /\ AdmittedDeliveries("e1") = Invocations
  /\ Cardinality(LoggedEvents("e1")) = 2
  /\ \A i \in Invocations : inv[i].d.llm = 1

\* the rows of the user's five most recent turns in the table the history query saw
WindowRows(i) ==
  LET rows == UserLogs(inv[i].d.logs, LineEvent(i).userId)
  IN  SubSeq(rows, IF Len(rows) > HistoryLimit THEN Len(rows) - HistoryLimit + 1 ELSE 1,
             Len(rows))

\* the id of the most recent AI turn of the window that recorded one, if any
RecordedReference(i) ==
  LET rows == WindowRows(i)
      turns == {n \in 1..Len(rows) : rows[n].sender = "ai" /\ rows[n].ai_response_id # NULL}
  IN  IF turns = {} THEN NULL
      ELSE rows[CHOOSE n \in turns : \A m \in turns : m <= n].ai_response_id

\* invocation i has sent a request to the responses API
SentResponsesRequest(i) ==
  /\ inv[i].d.llm = 1
  /\ inv[i].settings.active_ai = "gpt"
  /\ IsGPT5(inv[i].settings)

\* C31: the request to the responses API carries a previous-response reference
\* iff the window of history that was fetched contains an AI turn that recorded
\* a response id; the reference is the id of the most recent such turn, and
\* there is none without such a turn.
C31_ReferenceOfMostRecentAiTurn ==
  \A i \in Invocations :
    SentResponsesRequest(i) =>
      /\ inv[i].call.result.calls[1].api = "responses"
      /\ inv[i].call.result.calls[1].previous_response_id = RecordedReference(i)

\* the same for the version whose history query selects ai_response_id
C31_ReferenceInContinuationVariant ==
  \A i \in Invocations :
    SentResponsesRequest(i) /\ inv[i].variant = "part_003" =>
      /\ inv[i].call.result.calls[1].api = "responses"
      /\ inv[i].call.result.calls[1].previous_response_id = RecordedReference(i)

\* the continuation variant has sent both a request with a reference and, for
\* another delivery, a request whose reference is the id of the answer to the first
C31_ContinuationWitness ==
  /\ \A i \in Invocations : SentResponsesRequest(i) /\ inv[i].variant = "part_003"
  /\ inv[1].call.result.calls[1].previous_response_id = "r1"
  /\ inv[2].call.result.calls[1].previous_response_id = "r9"

\* the last n elements of a sequence, all of them when it is shorter
Latest(seq, n) == SubSeq(seq, IF Len(seq) > n THEN Len(seq) - n + 1 ELSE 1, Len(seq))

\* the turns of the user that the table held before the new message: the rows of
\* the user that the history query saw, without those of the event being handled
PriorTurns(i) ==
  SelectSeq(UserLogs(inv[i].d.logs, LineEvent(i).userId),
            LAMBDA r : r.webhook_event_id # LineEvent(i).webhookEventId)

\* the chat-completion request of invocation i, which is the last call it made
SentCompletionRequest(i) ==
  /\ inv[i].d.llm = 1
  /\ inv[i].settings.active_ai = "gpt"
  /\ inv[i].call.result.calls # <<>>
  /\ inv[i].call.result.calls[Len(inv[i].call.result.calls)].api = "chat.completions"

CompletionMessages(i) == inv[i].call.result.calls[Len(inv[i].call.result.calls)].messages

\* the message list is the system instruction, the turns given and the new message
ListsTurns(i, turns) ==
  LET messages == CompletionMessages(i)
  IN  /\ Len(messages) = Len(turns) + 2
      /\ messages[1].role = "system"
      /\ \A n \in 1..Len(turns) :
           /\ messages[n + 1].role = (IF turns[n].sender = "user" THEN "user" ELSE "assistant")
           /\ messages[n + 1].content = turns[n].message
      /\ messages[Len(messages)].role = "user"
      /\ messages[Len(messages)].content = LineEvent(i).text

\* the places of the list that hold the new message
PlacesOfNewMessage(i) ==
  {n \in 2..Len(CompletionMessages(i)) :
     /\ CompletionMessages(i)[n].role = "user"
     /\ CompletionMessages(i)[n].content = LineEvent(i).text}

\* C32: the message list of a chat-completion request is the system instruction,
\* then at most 5 of the user's most recent prior turns, oldest first, then the
\* new message; the new message appears exactly once, as the last element, and
\* no turn of another user is included.
C32_PriorTurnsThenNewMessage ==
  \A i \in Invocations :
    SentCompletionRequest(i) =>
      /\ ListsTurns(i, Latest(PriorTurns(i), HistoryLimit))
      /\ PlacesOfNewMessage(i) = {Len(CompletionMessages(i))}

\* what the handler sends: the window is taken after the new message was logged,
\* so the list is the system instruction, the user's 5 most recent rows, the new
\* message among them, and the new message again
C32_WindowHoldsNewMessage ==
  \A i \in Invocations :
    SentCompletionRequest(i) =>
      /\ ListsTurns(i, Latest(UserLogs(inv[i].d.logs, LineEvent(i).userId), HistoryLimit))
      /\ Cardinality(PlacesOfNewMessage(i)) >= 2

\* a request for a user with more than five turns was sent
C32_WindowWitness ==
  \E i \in Invocations :
    /\ SentCompletionRequest(i)
    /\ Len(PriorTurns(i)) > HistoryLimit
    /\ Len(CompletionMessages(i)) = HistoryLimit + 2
====
